---- MODULE Spec2Model ----
(***************************************************************************)
(* Model of the photo_levelup_agent backend: the in-memory job registry    *)
(* (handlers/image.go), the upload handler and its background pipeline     *)
(* (handlers/analyze.go), the session resolver and the chat handler        *)
(* (handlers/chat.go) and the Firestore session service                    *)
(* (session/firestore.go).                                                 *)
(***************************************************************************)
EXTENDS Integers, Sequences, FiniteSets, TLC

VARIABLES
    now,        \* the wall clock read by time.Now()
    jobStore,   \* globalJobStore: [jobs: id -> pointer, heap: pointer -> Job]
    nextJob,    \* number of job ids uuid.New() has handed out
    pipe,       \* the processAnalysis goroutines, by job id
    returned,   \* job ids the upload handler has written in a 202 response
    rejected,   \* the last 4xx response the upload handler has written
    poll,       \* the status handler's request in progress and its last response
    docs,       \* Firestore collection "sessions": document name -> SessionDocument
    events,     \* Firestore subcollections "events": document name -> EventDocuments
    appendLog,  \* history: document name -> event ids in the order they were added
    chat,       \* the chatWithAgent calls, by request number
    client,     \* a direct caller of the session service (store-level checks)
    markdown,   \* a call of fixMarkdownBold: its argument and what it returned
    server,     \* the process: its environment, NewServer's outcome, requests routed
    detail      \* a call of getSessionDetail: the session it got and what it returned

vars == <<now, jobStore, nextJob, pipe, returned, rejected, poll,
          docs, events, appendLog, chat, client, markdown, server, detail>>

storeVars == <<docs, events, appendLog>>

----------------------------------------------------------------------------
(* Bounds of the model *)

MaxJobs == 1
MaxChats == 2
MaxTime == 1
MaxEvents == 2
MaxRequests == 2
MaxText == 9

(* Inputs *)

AppName == "photo_levelup"
UserIDs == {"u1"}
ErrTexts == {"io timeout", "quota exceeded"}

JobId(n) == "job-" \o ToString(n)

----------------------------------------------------------------------------
(* handlers/image.go: JobStatus, Job, JobStore *)

JobStatusPending == "pending"
JobStatusProcessing == "processing"
JobStatusCompleted == "completed"
JobStatusFailed == "failed"

NoResult == [nil |-> TRUE]

NewJobStore == [jobs |-> <<>>, heap |-> <<>>]

Job(id, t) ==
    [ID |-> id, Status |-> JobStatusPending, Result |-> NoResult,
     Error |-> "", CreatedAt |-> t]

JobStore_Create(s, id, t) ==
    LET ptr == Len(s.heap) + 1
    IN  [jobs |-> [k \in DOMAIN s.jobs \cup {id} |->
                      IF k = id THEN ptr ELSE s.jobs[k]],
         heap |-> Append(s.heap, Job(id, t))]

JobStore_Get(s, id) ==
    IF id \in DOMAIN s.jobs THEN [ok |-> TRUE, job |-> s.jobs[id]]
    ELSE [ok |-> FALSE, job |-> 0]

JobStore_SetProcessing(s, id) ==
    IF id \in DOMAIN s.jobs
    THEN [s EXCEPT !.heap[s.jobs[id]].Status = JobStatusProcessing]
    ELSE s

JobStore_SetCompleted(s, id, result) ==
    IF id \in DOMAIN s.jobs
    THEN [s EXCEPT !.heap[s.jobs[id]].Status = JobStatusCompleted,
                   !.heap[s.jobs[id]].Result = result]
    ELSE s

\* the status set to failed and the message dropped
JobStore_SetFailed_StatusOnly(s, id, errMsg) ==
    IF id \in DOMAIN s.jobs
    THEN [s EXCEPT !.heap[s.jobs[id]].Status = JobStatusFailed]
    ELSE s

JobStore_SetFailed(s, id, errMsg) ==
    IF id \in DOMAIN s.jobs
    THEN [s EXCEPT !.heap[s.jobs[id]].Status = JobStatusFailed,
                   !.heap[s.jobs[id]].Error = errMsg]
    ELSE s

JobStore_Cleanup(s, maxAge, t) ==
    LET cutoff == t - maxAge
        kept == {id \in DOMAIN s.jobs : ~(s.heap[s.jobs[id]].CreatedAt < cutoff)}
    IN  [s EXCEPT !.jobs = [id \in kept |-> s.jobs[id]]]

----------------------------------------------------------------------------
(* session/firestore.go: documents, session objects, FirestoreService *)

EmptyState == [k \in {} |-> ""]

NilContent == [nil |-> TRUE]

\* State.Get: (value, nil) when the key is present, ErrStateKeyNotExist otherwise
StateHas(state, key) == key \in DOMAIN state

\* UpdateState storing the updates alone
MergeState_UpdatesOnly(state, updates) == updates

\* the per-key merge of UpdateState: for key, value := range updates
MergeState(state, updates) ==
    [k \in DOMAIN state \cup DOMAIN updates |->
        IF k \in DOMAIN updates THEN updates[k] ELSE state[k]]

sessionDocRef(appName, userID, sessionID) ==
    appName \o "_" \o userID \o "_" \o sessionID

SessionDocument(id, appName, userID, state, t) ==
    [ID |-> id, AppName |-> appName, UserID |-> userID, State |-> state,
     CreatedAt |-> t, UpdatedAt |-> t]

FirestoreSession(id, appName, userID, state, evs, t) ==
    [id |-> id, appName |-> appName, userID |-> userID, state |-> state,
     events |-> evs, lastUpdateTime |-> t]

NoSession == FirestoreSession("", "", "", EmptyState, <<>>, 0)

\* the id FirestoreService.Create gives a session: req.SessionID, or one made
\* from the clock
CreateSessionID(reqSessionID, t) ==
    IF reqSessionID = "" THEN "session_" \o ToString(t) ELSE reqSessionID

\* FirestoreService.Create, when docRef.Set succeeds: the document is made,
\* or replaced when one of that name exists
FirestoreService_Create(d, appName, userID, reqSessionID, state, t) ==
    LET sessionID == CreateSessionID(reqSessionID, t)
        name == sessionDocRef(appName, userID, sessionID)
        doc == SessionDocument(sessionID, appName, userID, state, t)
    IN  [docs |-> [n \in DOMAIN d \cup {name} |-> IF n = name THEN doc ELSE d[n]],
         sess |-> FirestoreSession(sessionID, appName, userID, state, <<>>, t)]

\* json.Marshal / json.Unmarshal of a genai.Content: the JSON text is the
\* sequence of its keys and values, the empty text the empty sequence
MarshalContent(c) == <<"role", c.Role, "parts", c.Parts>>

\* AppendEvent's serialization step and the document it stores: the empty
\* text for a nil Content
EventDocument(ev) ==
    [ID |-> ev.ID, InvocationID |-> ev.InvocationID, Author |-> ev.Author,
     Content |-> IF ev.Content = NilContent THEN <<>> ELSE MarshalContent(ev.Content),
     Timestamp |-> ev.Timestamp]

\* getEvents' loop body: one EventDocument back to a session.Event
RestoreEvent(ed) ==
    [ID |-> ed.ID, InvocationID |-> ed.InvocationID, Author |-> ed.Author,
     Content |-> IF ed.Content = <<>> THEN NilContent
                 ELSE [Role |-> ed.Content[2], Parts |-> ed.Content[4]],
     Timestamp |-> ed.Timestamp]

EventDocsOf(evs, name) == IF name \in DOMAIN evs THEN evs[name] ELSE <<>>

\* getEvents: the subcollection is kept in the order of the query
\* OrderBy("timestamp", Asc); each document is restored in turn
getEvents(evs, name) ==
    LET stored == EventDocsOf(evs, name)
    IN  [i \in 1..Len(stored) |-> RestoreEvent(stored[i])]

\* FirestoreService.Get, when docRef.Get finds the document; eventsOK is
\* whether getEvents succeeded (its failure is logged and gives no events)
FirestoreService_Get(d, evs, appName, userID, sessionID, eventsOK) ==
    LET name == sessionDocRef(appName, userID, sessionID)
        doc == d[name]
    IN  FirestoreSession(doc.ID, doc.AppName, doc.UserID, doc.State,
                         IF eventsOK THEN getEvents(evs, name) ELSE <<>>,
                         doc.UpdatedAt)

\* The places Collection.Add's random document name can take in the
\* timestamp order of the subcollection
InsertPositions(stored, ts) ==
    {p \in 1..(Len(stored) + 1) :
        /\ \A i \in 1..(p - 1) : stored[i].Timestamp <= ts
        /\ \A i \in p..Len(stored) : stored[i].Timestamp >= ts}

\* docRef.Collection("events").Add
EventsAdd(evs, name, ed, p) ==
    LET s == EventDocsOf(evs, name)
    IN  [n \in DOMAIN evs \cup {name} |->
            IF n = name
            THEN [i \in 1..(Len(s) + 1) |->
                     IF i < p THEN s[i] ELSE IF i = p THEN ed ELSE s[i - 1]]
            ELSE evs[n]]

\* AppendEvent's docRef.Update: the timestamp and the state held by the
\* session object
AppendEvent_Update(d, sess, t) ==
    LET name == sessionDocRef(sess.appName, sess.userID, sess.id)
    IN  [d EXCEPT ![name].UpdatedAt = t, ![name].State = sess.state]

\* the session object's own list left as it was
AppendEvent_InMemory_Skipped(sess, ev) == sess

\* AppendEvent's last step: the event joins the session object's own list
AppendEvent_InMemory(sess, ev) == [sess EXCEPT !.events = Append(@, ev)]

\* UpdateState's docRef.Update, with the document read before
UpdateState_Write(d, name, readDoc, updates, t) ==
    [d EXCEPT ![name].State = MergeState(readDoc.State, updates),
              ![name].UpdatedAt = t]

\* The sessions List's query matches
ListMatches(d, appName, userID) ==
    {n \in DOMAIN d : d[n].AppName = appName /\ d[n].UserID = userID}

\* FirestoreService.List: the matches by updatedAt descending (documents of
\* equal updatedAt in either order)
FirestoreService_List(d, appName, userID) ==
    LET names == ListMatches(d, appName, userID)
        n == Cardinality(names)
    IN  {[i \in 1..n |-> FirestoreSession(d[f[i]].ID, d[f[i]].AppName, d[f[i]].UserID,
                                           d[f[i]].State, <<>>, d[f[i]].UpdatedAt)] :
            f \in {g \in [1..n -> names] :
                     /\ \A i, j \in 1..n : i # j => g[i] # g[j]
                     /\ \A i, j \in 1..n :
                          i < j => d[g[i]].UpdatedAt >= d[g[j]].UpdatedAt}}

----------------------------------------------------------------------------
(* handlers/chat.go: resolveSessionID *)

FrontendKey == "frontend_session_id"

\* map[string]any{"frontend_session_id": sessionID}
TokenState(sessionID) == [k \in {FrontendKey} |-> sessionID]

\* strings.TrimSpace(s) == ""
IsBlank(s) == s \in {"", " ", "  "}

\* the conversations of a user whose stored state carries the token
Carriers(d, userID, sessionID) ==
    {n \in ListMatches(d, AppName, userID) :
        /\ StateHas(d[n].State, FrontendKey)
        /\ d[n].State[FrontendKey] = sessionID}

\* A call of resolveSessionID: where it stands, its arguments, the request
\* state of the Create it is about to issue, what it returns, and the
\* history of the call (listed and before: the user's conversations and those
\* carrying the token when List ran; creates; listFailed)
NewResolve(userID, sessionID) ==
    [pc |-> "list", userID |-> userID, sessionID |-> sessionID,
     path |-> "", reqState |-> EmptyState, id |-> "", err |-> "",
     listed |-> {}, before |-> {}, creates |-> 0, listFailed |-> FALSE]

\* the loop finding no conversation, whatever the listing holds
FirstMatch_NeverFound(listing, sessionID) == 0

\* the loop over listResponse.Sessions looking for the stored token: the
\* index of the first match, 0 when there is none
FirstMatch(listing, sessionID) ==
    LET hits == {i \in 1..Len(listing) :
                    /\ StateHas(listing[i].state, FrontendKey)
                    /\ listing[i].state[FrontendKey] = sessionID}
    IN  IF hits = {} THEN 0 ELSE CHOOSE i \in hits : \A j \in hits : i <= j

\* the loop keeping the candidate whose LastUpdateTime is After the latest
RECURSIVE LatestFrom(_, _, _)
LatestFrom(listing, i, latest) ==
    IF i > Len(listing) THEN latest
    ELSE IF listing[i].lastUpdateTime > listing[latest].lastUpdateTime
         THEN LatestFrom(listing, i + 1, i)
         ELSE LatestFrom(listing, i + 1, latest)

\* the candidate taken from the end of the listing
Latest_LastListed(listing) == listing[Len(listing)]

Latest(listing) == listing[LatestFrom(listing, 2, 1)]

\* resolveSessionID from the return of a successful List to its own return
\* or to its next Create
resolve_AfterList(rs, listing) ==
    IF rs.sessionID # "default" /\ rs.sessionID # ""
    THEN LET m == FirstMatch(listing, rs.sessionID)
         IN  IF m # 0
             THEN [rs EXCEPT !.pc = "done", !.path = "explicit", !.id = listing[m].id]
             ELSE [rs EXCEPT !.pc = "create", !.path = "explicit",
                             !.reqState = TokenState(rs.sessionID)]
    ELSE IF Len(listing) > 0
         THEN [rs EXCEPT !.pc = "done", !.path = "default", !.id = Latest(listing).id]
         ELSE [rs EXCEPT !.pc = "create", !.path = "default", !.reqState = EmptyState]

\* the fallback Create made without the token
resolve_AfterListError_NoToken(rs) ==
    [rs EXCEPT !.pc = "create", !.path = "fallback", !.listFailed = TRUE,
               !.reqState = EmptyState]

\* resolveSessionID when List returns an error: the fallback Create
resolve_AfterListError(rs) ==
    [rs EXCEPT !.pc = "create", !.path = "fallback", !.listFailed = TRUE,
               !.reqState = TokenState(rs.sessionID)]

\* the id of the created conversation returned without looking at it
resolve_AfterCreate_AnyID(rs, createOK, newSessionID) ==
    IF createOK
    THEN [rs EXCEPT !.pc = "done", !.id = newSessionID]
    ELSE [rs EXCEPT !.pc = "done", !.err = "failed to create session"]

\* resolveSessionID from the return of Create to its own return
resolve_AfterCreate(rs, createOK, newSessionID) ==
    IF rs.path = "fallback"
    THEN IF createOK /\ ~IsBlank(newSessionID)
         THEN [rs EXCEPT !.pc = "done", !.id = newSessionID]
         ELSE [rs EXCEPT !.pc = "done",
                         !.err = "failed to list sessions for user " \o rs.userID]
    ELSE IF ~createOK
         THEN [rs EXCEPT !.pc = "done", !.err = "failed to create session"]
         ELSE IF IsBlank(newSessionID)
              THEN [rs EXCEPT !.pc = "done", !.err = "created session has empty ID"]
              ELSE [rs EXCEPT !.pc = "done", !.id = newSessionID]

\* The outcomes of the List call of a resolution: a listing or an error
ResolveListOutcomes(rs, d) ==
    LET r == [rs EXCEPT !.listed = ListMatches(d, AppName, rs.userID),
                        !.before = Carriers(d, rs.userID, rs.sessionID)]
    IN  {resolve_AfterList(r, l) : l \in FirestoreService_List(d, AppName, rs.userID)}
        \cup {resolve_AfterListError(r)}

\* The outcomes of the Create call of a resolution: the document written, or
\* an error and the collection as it was
ResolveCreateOutcomes(rs, d, t) ==
    LET c == FirestoreService_Create(d, AppName, rs.userID, "", rs.reqState, t)
    IN  {[rs |-> [resolve_AfterCreate(rs, TRUE, c.sess.id) EXCEPT !.creates = @ + 1],
          docs |-> c.docs],
         [rs |-> resolve_AfterCreate(rs, FALSE, ""), docs |-> d]}

----------------------------------------------------------------------------
(* handlers/analyze.go: AnalyzeHandler.ServeHTTP *)

Methods == {"POST", "GET"}

\* An upload request: the method, whether the multipart form parses within
\* the size limit, whether it has the "image" field, whether the file can be
\* read, and the two form values
IsValidUpload(req) ==
    req.method = "POST" /\ req.formOK /\ req.hasImage /\ req.readable

\* the well-formed uploads, with the form values tried
ValidUploads ==
    {[method |-> "POST", formOK |-> TRUE, hasImage |-> TRUE, readable |-> TRUE,
      sessionId |-> f.sessionId, userId |-> f.userId] :
        f \in {[sessionId |-> "", userId |-> ""]}
               \cup [sessionId : {"s1", "default"}, userId : UserIDs]}

InvalidUploads ==
    {r \in [method : Methods, formOK : BOOLEAN, hasImage : BOOLEAN,
            readable : BOOLEAN, sessionId : {"s1"}, userId : {"u1"}] :
        ~IsValidUpload(r)}

DefaultSessionID(sessionId) == IF sessionId = "" THEN "default" ELSE sessionId
DefaultUserID(userId) == IF userId = "" THEN "anonymous" ELSE userId

Rejected(s, code, message) ==
    [code |-> code, error |-> message, jobId |-> "", status |-> "",
     jobStore |-> s, spawn |-> FALSE, userID |-> "", sessionID |-> ""]

\* ServeHTTP with the job registered before the file is read
AnalyzeServeHTTP_CreateBeforeRead(s, req, id, t) ==
    IF req.method # "POST" THEN Rejected(s, 405, "Method not allowed")
    ELSE IF ~req.formOK THEN Rejected(s, 400, "File too large")
    ELSE IF ~req.hasImage THEN Rejected(s, 400, "Failed to get file")
    ELSE IF ~req.readable
         THEN Rejected(JobStore_Create(s, id, t), 400, "Failed to read file")
    ELSE [code |-> 202, error |-> "", jobId |-> id, status |-> JobStatusPending,
          jobStore |-> JobStore_Create(s, id, t), spawn |-> TRUE,
          userID |-> DefaultUserID(req.userId),
          sessionID |-> DefaultSessionID(req.sessionId)]

\* ServeHTTP leaving the registration of the job to the goroutine
AnalyzeServeHTTP_NoCreate(s, req, id, t) ==
    IF ~IsValidUpload(req) THEN Rejected(s, 400, "Bad request")
    ELSE [code |-> 202, error |-> "", jobId |-> id, status |-> JobStatusPending,
          jobStore |-> s, spawn |-> TRUE,
          userID |-> DefaultUserID(req.userId),
          sessionID |-> DefaultSessionID(req.sessionId)]

\* ServeHTTP as a function of the registry, the request, the uuid drawn and
\* the clock: the response, the registry afterwards and whether the
\* goroutine is started
AnalyzeServeHTTP(s, req, id, t) ==
    IF req.method # "POST" THEN Rejected(s, 405, "Method not allowed")
    ELSE IF ~req.formOK THEN Rejected(s, 400, "File too large")
    ELSE IF ~req.hasImage THEN Rejected(s, 400, "Failed to get file")
    ELSE IF ~req.readable THEN Rejected(s, 400, "Failed to read file")
    ELSE [code |-> 202, error |-> "", jobId |-> id, status |-> JobStatusPending,
          jobStore |-> JobStore_Create(s, id, t), spawn |-> TRUE,
          userID |-> DefaultUserID(req.userId),
          sessionID |-> DefaultSessionID(req.sessionId)]

----------------------------------------------------------------------------
(* handlers/analyze.go: processAnalysis, updateSessionState, seedAnalysisEvents *)

\* What the vision oracle may return: title, overall score, summary
Analyses ==
    {[PhotoSummary |-> "Sunset", OverallScore |-> 7, Summary |-> "warm light"],
     [PhotoSummary |-> "Harbour", OverallScore |-> 4, Summary |-> "tilted horizon"]}

\* json.Marshal(analysis), as the sequence of its keys and values
MarshalAnalysis(a) ==
    <<"photoSummary", a.PhotoSummary, "summary", a.Summary,
      "overallScore", a.OverallScore>>

AnalyzeResult(enhancedURL, analysis) ==
    [EnhancedImageURL |-> enhancedURL, Analysis |-> analysis,
     InitialAdvice |-> analysis.Summary]

\* the state written without the title and the score
StateUpdates_NoTitleNoScore(enhancedURL, imageURL, sessionID, analysis) ==
    [k \in {"enhanced_image_url", "original_image_url", FrontendKey,
            "analysis_result"} |->
        CASE k = "enhanced_image_url" -> enhancedURL
          [] k = "original_image_url" -> imageURL
          [] k = FrontendKey -> sessionID
          [] OTHER -> MarshalAnalysis(analysis)]

\* stateUpdates of processAnalysis (json.Marshal of the analysis struct,
\* strings and ints only, does not fail)
StateUpdates(enhancedURL, imageURL, sessionID, analysis) ==
    [k \in {"enhanced_image_url", "original_image_url", FrontendKey,
            "overall_score", "title", "analysis_result"} |->
        CASE k = "enhanced_image_url" -> enhancedURL
          [] k = "original_image_url" -> imageURL
          [] k = FrontendKey -> sessionID
          [] k = "overall_score" -> analysis.OverallScore
          [] k = "title" -> analysis.PhotoSummary
          [] OTHER -> MarshalAnalysis(analysis)]

\* genai.NewContentFromText(text, role)
NewContentFromText(text, role) == [Role |-> role, Parts |-> <<[Text |-> text]>>]

\* session.NewEvent(invocationID) with the author and content set by the caller
NewEvent(id, invocationID, author, content, t) ==
    [ID |-> id, InvocationID |-> invocationID, Author |-> author,
     Content |-> content, Timestamp |-> t]

SeedUserEvent(jobID, t) ==
    NewEvent(jobID \o "-user", "inv-" \o jobID, "user",
             NewContentFromText("please analyse this photo", "user"), t)

\* the model event made with an invocation id of its own
SeedModelEvent_OwnInvocation(jobID, analysis, t) ==
    NewEvent(jobID \o "-model", "inv-model-" \o jobID, "photo_coach",
             NewContentFromText("analysed: " \o analysis.PhotoSummary \o " score "
                                    \o ToString(analysis.OverallScore) \o "/10 "
                                    \o analysis.Summary,
                                "model"), t)

\* the model event, its text made by fmt.Sprintf of the analysis
SeedModelEvent(jobID, analysis, t) ==
    NewEvent(jobID \o "-model", "inv-" \o jobID, "photo_coach",
             NewContentFromText("analysed: " \o analysis.PhotoSummary \o " score "
                                    \o ToString(analysis.OverallScore) \o "/10 "
                                    \o analysis.Summary,
                                "model"), t)

\* The goroutine of a job before its first step
NewPipeline(jobID, userID, sessionID) ==
    [pc |-> "start", jobID |-> jobID, userID |-> userID, sessionID |-> sessionID,
     imageURL |-> "",
     analysis |-> [PhotoSummary |-> "", OverallScore |-> 0, Summary |-> ""],
     enhancedURL |-> "",
     rs |-> NewResolve(userID, sessionID), read |-> SessionDocument("", "", "", EmptyState, 0),
     updated |-> "", sess |-> NoSession, event |-> NewEvent("", "", "", NilContent, 0),
     seeded |-> ""]

\* processAnalysis has returned: the goroutine's locals are gone
PipeReturn(p) == [NewPipeline(p.jobID, p.userID, p.sessionID) EXCEPT !.pc = "done"]

\* the pipeline going on to the session resolution after SetFailed
AfterSetFailed_Resolves(next) == "resolve"

\* processAnalysis going on to the next step after SetFailed
AfterSetFailed_NoReturn(next) == next

\* where processAnalysis goes after a step that failed with SetFailed: it returns
AfterSetFailed(next) == "done"

\* a failed resolution taken up again instead of being logged
AfterResolve_Retry(rs) == IF rs.id # "" THEN "update_get" ELSE "resolve"

\* where processAnalysis goes when resolveSessionID has returned
AfterResolve(rs) == IF rs.id # "" THEN "update_get" ELSE "complete"

\* The outcomes of AppendEvent's docRef.Update: the document updated (it must
\* exist), or an error and the collection as it was
AppendUpdateOutcomes(d, sess, t) ==
    (IF sessionDocRef(sess.appName, sess.userID, sess.id) \in DOMAIN d
     THEN {[ok |-> TRUE, docs |-> AppendEvent_Update(d, sess, t)]}
     ELSE {})
    \cup {[ok |-> FALSE, docs |-> d]}

\* The outcomes of AppendEvent's Add: the event document stored under a new
\* random name, or an error and the subcollection as it was
AppendAddOutcomes(evs, log, sess, ev) ==
    LET name == sessionDocRef(sess.appName, sess.userID, sess.id)
    IN  {[ok |-> TRUE, events |-> EventsAdd(evs, name, EventDocument(ev), p),
          log |-> [n \in DOMAIN log \cup {name} |->
                      IF n # name THEN log[n]
                      ELSE IF n \in DOMAIN log THEN Append(log[n], ev.ID)
                      ELSE <<ev.ID>>]] :
            p \in InsertPositions(EventDocsOf(evs, name), ev.Timestamp)}
        \cup {[ok |-> FALSE, events |-> evs, log |-> log]}

----------------------------------------------------------------------------
(* The upload handler and the goroutine it starts, as actions *)

\* ServeHTTP on one request; the 202 of an accepted upload is written later
UploadStep(req) ==
    LET out == AnalyzeServeHTTP(jobStore, req, JobId(nextJob + 1), now)
    IN  /\ out.spawn => nextJob < MaxJobs
        /\ jobStore' = out.jobStore
        /\ IF out.spawn
           THEN /\ nextJob' = nextJob + 1
                /\ pipe' = [j \in DOMAIN pipe \cup {out.jobId} |->
                               IF j = out.jobId
                               THEN NewPipeline(out.jobId, out.userID, out.sessionID)
                               ELSE pipe[j]]
           ELSE UNCHANGED <<nextJob, pipe>>
        /\ rejected' = IF out.code >= 400
                       THEN [code |-> out.code, error |-> out.error,
                             jobId |-> out.jobId, status |-> out.status]
                       ELSE rejected
        /\ UNCHANGED <<now, returned, poll, storeVars, chat, client, markdown, server, detail>>

UploadAccept == \E req \in ValidUploads : UploadStep(req)

UploadReject == \E req \in InvalidUploads : UploadStep(req)

\* writeJSON(w, http.StatusAccepted, ...) of an accepted upload
UploadRespond ==
    /\ \E n \in 1..nextJob :
         /\ JobId(n) \notin returned
         /\ returned' = returned \cup {JobId(n)}
    /\ UNCHANGED <<now, jobStore, nextJob, pipe, rejected, poll, storeVars, chat, client, markdown, server, detail>>

PipeAt(j, pcs) == j \in DOMAIN pipe /\ pipe[j].pc \in pcs

PipeLocal == <<now, nextJob, returned, rejected, poll, chat, client, markdown, server, detail>>

\* the message processAnalysis hands to SetFailed when a step returned the
\* error err: a literal for the storage client and the resize, err.Error()
\* for the upload, the analysis (wrapped by analyzeWithAgent) and the generation
FailureMessage(step, err) ==
    CASE step = "storage" -> "Storage client error"
      [] step = "resize" -> "Invalid image"
      [] step = "analyze" -> "image analysis failed: " \o err
      [] OTHER -> err

\* jobStore.SetFailed(jobID, msg); return
PipeFail(j, msg, next) ==
    /\ jobStore' = JobStore_SetFailed(jobStore, j, msg)
    /\ pipe' = [pipe EXCEPT ![j] = IF AfterSetFailed(next) = "done" THEN PipeReturn(@)
                                   ELSE [@ EXCEPT !.pc = AfterSetFailed(next)]]

PipeStart(j) ==
    /\ PipeAt(j, {"start"})
    /\ jobStore' = JobStore_SetProcessing(jobStore, j)
    /\ pipe' = [pipe EXCEPT ![j].pc = "storage"]
    /\ UNCHANGED <<PipeLocal, storeVars>>

\* services.NewStorageClient
PipeStorage(j) ==
    /\ PipeAt(j, {"storage"})
    /\ \E ok \in BOOLEAN :
         IF ok THEN /\ pipe' = [pipe EXCEPT ![j].pc = "resize"]
                    /\ UNCHANGED jobStore
         ELSE \E e \in ErrTexts : PipeFail(j, FailureMessage("storage", e), "resize")
    /\ UNCHANGED <<PipeLocal, storeVars>>

\* processor.ResizeToMaxEdgeFromBytes
PipeResize(j) ==
    /\ PipeAt(j, {"resize"})
    /\ \E ok \in BOOLEAN :
         IF ok THEN /\ pipe' = [pipe EXCEPT ![j].pc = "upload"]
                    /\ UNCHANGED jobStore
         ELSE \E e \in ErrTexts : PipeFail(j, FailureMessage("resize", e), "upload")
    /\ UNCHANGED <<PipeLocal, storeVars>>

\* storageClient.UploadImage
PipeUpload(j) ==
    /\ PipeAt(j, {"upload"})
    /\ \/ /\ pipe' = [pipe EXCEPT ![j].pc = "analyze",
                                  ![j].imageURL = "gs://bucket/uploads/" \o j]
          /\ UNCHANGED jobStore
       \/ \E e \in ErrTexts : PipeFail(j, FailureMessage("upload", e), "analyze")
    /\ UNCHANGED <<PipeLocal, storeVars>>

\* analyzeWithAgent
PipeAnalyze(j) ==
    /\ PipeAt(j, {"analyze"})
    /\ \/ \E a \in Analyses :
            /\ pipe' = [pipe EXCEPT ![j].pc = "enhance", ![j].analysis = a]
            /\ UNCHANGED jobStore
       \/ \E e \in ErrTexts : PipeFail(j, FailureMessage("analyze", e), "enhance")
    /\ UNCHANGED <<PipeLocal, storeVars>>

\* generateEnhancedImage
PipeEnhance(j) ==
    /\ PipeAt(j, {"enhance"})
    /\ \/ /\ pipe' = [pipe EXCEPT ![j].pc = "resolve",
                                  ![j].enhancedURL = "/photo/image?object=enhanced/" \o j]
          /\ UNCHANGED jobStore
       \/ \E e \in ErrTexts : PipeFail(j, FailureMessage("enhance", e), "resolve")
    /\ UNCHANGED <<PipeLocal, storeVars>>

\* resolveSessionID: sessionService.List and what follows it
PipeResolveList(j) ==
    /\ PipeAt(j, {"resolve"})
    /\ pipe[j].rs.pc = "list"
    /\ \E nrs \in ResolveListOutcomes(pipe[j].rs, docs) :
         pipe' = [pipe EXCEPT ![j].rs = nrs,
                              ![j].pc = IF nrs.pc = "done" THEN AfterResolve(nrs)
                                        ELSE "resolve"]
    /\ UNCHANGED <<PipeLocal, jobStore, storeVars>>

\* resolveSessionID: sessionService.Create and what follows it
PipeResolveCreate(j) ==
    /\ PipeAt(j, {"resolve"})
    /\ pipe[j].rs.pc = "create"
    /\ \E o \in ResolveCreateOutcomes(pipe[j].rs, docs, now) :
         /\ docs' = o.docs
         /\ pipe' = [pipe EXCEPT ![j].rs = o.rs, ![j].pc = AfterResolve(o.rs)]
    /\ UNCHANGED <<PipeLocal, jobStore, events, appendLog>>

PipeDoc(j) == sessionDocRef(AppName, pipe[j].userID, pipe[j].rs.id)

\* updateSessionState -> UpdateState: docRef.Get
PipeUpdateGet(j) ==
    /\ PipeAt(j, {"update_get"})
    /\ \/ /\ PipeDoc(j) \in DOMAIN docs
          /\ pipe' = [pipe EXCEPT ![j].read = docs[PipeDoc(j)], ![j].pc = "update_write"]
       \/ pipe' = [pipe EXCEPT ![j].pc = "fallback_get"]
    /\ UNCHANGED <<PipeLocal, jobStore, storeVars>>

\* updateSessionState -> UpdateState: the merge and docRef.Update
PipeUpdateWrite(j) ==
    /\ PipeAt(j, {"update_write"})
    /\ \/ /\ PipeDoc(j) \in DOMAIN docs
          /\ docs' = UpdateState_Write(docs, PipeDoc(j), pipe[j].read,
                        StateUpdates(pipe[j].enhancedURL, pipe[j].imageURL,
                                     pipe[j].sessionID, pipe[j].analysis), now)
          /\ pipe' = [pipe EXCEPT ![j].updated = "persisted", ![j].pc = "seed_get"]
       \/ /\ pipe' = [pipe EXCEPT ![j].pc = "fallback_get"]
          /\ UNCHANGED docs
    /\ UNCHANGED <<PipeLocal, jobStore, events, appendLog>>

\* a state write that could not be made at all marking the job failed
PipeFallbackGet_FailsJob(j) ==
    /\ PipeAt(j, {"fallback_get"})
    /\ \/ /\ PipeDoc(j) \in DOMAIN docs
          /\ pipe' = [pipe EXCEPT ![j].updated = "memory", ![j].pc = "seed_get"]
          /\ UNCHANGED jobStore
       \/ PipeFail(j, "state write failed", "seed_get")
    /\ UNCHANGED <<PipeLocal, storeVars>>

\* updateSessionState's fallback: sessionService.Get and state.Set on the
\* session object it returned, which is then dropped
PipeFallbackGet(j) ==
    /\ PipeAt(j, {"fallback_get"})
    /\ \/ /\ PipeDoc(j) \in DOMAIN docs
          /\ pipe' = [pipe EXCEPT ![j].updated = "memory", ![j].pc = "seed_get"]
       \/ pipe' = [pipe EXCEPT ![j].updated = "error", ![j].pc = "seed_get"]
    /\ UNCHANGED <<PipeLocal, jobStore, storeVars>>

\* seedAnalysisEvents: sessionService.Get, then the user event is made
PipeSeedGet(j) ==
    /\ PipeAt(j, {"seed_get"})
    /\ \/ /\ PipeDoc(j) \in DOMAIN docs
          /\ \E eventsOK \in BOOLEAN :
               pipe' = [pipe EXCEPT
                          ![j].sess = FirestoreService_Get(docs, events, AppName,
                                          pipe[j].userID, pipe[j].rs.id, eventsOK),
                          ![j].event = SeedUserEvent(j, now),
                          ![j].pc = "seed_user_update"]
       \/ pipe' = [pipe EXCEPT ![j].seeded = "error", ![j].pc = "complete"]
    /\ UNCHANGED <<PipeLocal, jobStore, storeVars>>

\* AppendEvent of a seeded event: docRef.Update
PipeSeedUpdate(j) ==
    /\ PipeAt(j, {"seed_user_update", "seed_model_update"})
    /\ \E o \in AppendUpdateOutcomes(docs, pipe[j].sess, now) :
         /\ docs' = o.docs
         /\ pipe' = [pipe EXCEPT
                       ![j].pc = IF ~o.ok THEN "complete"
                                 ELSE IF pipe[j].pc = "seed_user_update"
                                      THEN "seed_user_add" ELSE "seed_model_add",
                       ![j].seeded = IF o.ok THEN @ ELSE "error"]
    /\ UNCHANGED <<PipeLocal, jobStore, events, appendLog>>

\* AppendEvent of a seeded event: Add, and the in-process append; after the
\* user event the model event is made
PipeSeedAdd(j) ==
    /\ PipeAt(j, {"seed_user_add", "seed_model_add"})
    /\ \E o \in AppendAddOutcomes(events, appendLog, pipe[j].sess, pipe[j].event) :
         /\ events' = o.events
         /\ appendLog' = o.log
         /\ pipe' = [pipe EXCEPT
                       ![j].sess = IF o.ok THEN AppendEvent_InMemory(@, pipe[j].event)
                                   ELSE @,
                       ![j].event = IF o.ok /\ pipe[j].pc = "seed_user_add"
                                    THEN SeedModelEvent(j, pipe[j].analysis, now)
                                    ELSE @,
                       ![j].seeded = IF ~o.ok THEN "error"
                                     ELSE IF pipe[j].pc = "seed_model_add" THEN "ok"
                                     ELSE @,
                       ![j].pc = IF o.ok /\ pipe[j].pc = "seed_user_add"
                                 THEN "seed_model_update" ELSE "complete"]
    /\ UNCHANGED <<PipeLocal, jobStore, docs>>

\* jobStore.SetCompleted(jobID, result)
PipeComplete(j) ==
    /\ PipeAt(j, {"complete"})
    /\ jobStore' = JobStore_SetCompleted(jobStore, j,
                       AnalyzeResult(pipe[j].enhancedURL, pipe[j].analysis))
    /\ pipe' = [pipe EXCEPT ![j] = PipeReturn(@)]
    /\ UNCHANGED <<PipeLocal, storeVars>>

JobIds == {JobId(n) : n \in 1..MaxJobs}

\* one step of the goroutine of job j
PipelineOf(j) ==
        \/ PipeStart(j) \/ PipeStorage(j) \/ PipeResize(j) \/ PipeUpload(j)
        \/ PipeAnalyze(j) \/ PipeEnhance(j)
        \/ PipeResolveList(j) \/ PipeResolveCreate(j)
        \/ PipeUpdateGet(j) \/ PipeUpdateWrite(j) \/ PipeFallbackGet(j)
        \/ PipeSeedGet(j) \/ PipeSeedUpdate(j) \/ PipeSeedAdd(j)
        \/ PipeComplete(j)

Pipeline == \E j \in JobIds : PipelineOf(j)

----------------------------------------------------------------------------
(* handlers/analyze.go: AnalyzeStatusHandler.ServeHTTP *)

NoPollResponse ==
    [code |-> 0, jobId |-> "", status |-> "", hasResult |-> FALSE,
     result |-> NoResult, hasError |-> FALSE, error |-> ""]

\* no status request in progress
PollIdle == [pc |-> "idle", id |-> "", job |-> 0, known |-> FALSE, resp |-> NoPollResponse]

\* the method and jobId checks (answered at once) and jobStore.Get
PollGet ==
    /\ poll.pc = "idle"
    /\ \E method \in Methods, id \in JobIds \cup {""} :
         LET g == JobStore_Get(jobStore, id)
             known == id \in returned
         IN  poll' =
               IF method # "GET" \/ id = ""
               THEN PollIdle
               ELSE IF ~g.ok
               THEN [PollIdle EXCEPT !.pc = "write", !.id = id, !.known = known,
                                     !.resp = [NoPollResponse EXCEPT
                                                 !.code = 404,
                                                 !.error = "Job not found"]]
               ELSE [PollIdle EXCEPT !.pc = "status", !.id = id, !.known = known,
                                     !.job = g.job]
    /\ UNCHANGED <<now, jobStore, nextJob, pipe, returned, rejected, storeVars, chat, client, markdown, server, detail>>

\* response := {"jobId": job.ID, "status": string(job.Status)}
PollReadStatus ==
    /\ poll.pc = "status"
    /\ poll' = [poll EXCEPT !.pc = "result",
                            !.resp.code = 200,
                            !.resp.jobId = jobStore.heap[poll.job].ID,
                            !.resp.status = jobStore.heap[poll.job].Status]
    /\ UNCHANGED <<now, jobStore, nextJob, pipe, returned, rejected, storeVars, chat, client, markdown, server, detail>>

\* the result left out of the response of a completed job
PollReadResult_NoResult ==
    /\ poll.pc = "result"
    /\ poll' = [poll EXCEPT !.pc = "error"]
    /\ UNCHANGED <<now, jobStore, nextJob, pipe, returned, rejected, storeVars, chat, client, markdown, server, detail>>

\* if job.Status == JobStatusCompleted && job.Result != nil
PollReadResult ==
    /\ poll.pc = "result"
    /\ LET job == jobStore.heap[poll.job]
       IN  poll' = IF job.Status = JobStatusCompleted /\ job.Result # NoResult
                   THEN [poll EXCEPT !.pc = "error", !.resp.hasResult = TRUE,
                                     !.resp.result = job.Result]
                   ELSE [poll EXCEPT !.pc = "error"]
    /\ UNCHANGED <<now, jobStore, nextJob, pipe, returned, rejected, storeVars, chat, client, markdown, server, detail>>

\* if job.Status == JobStatusFailed
PollReadError ==
    /\ poll.pc = "error"
    /\ LET job == jobStore.heap[poll.job]
       IN  poll' = IF job.Status = JobStatusFailed
                   THEN [poll EXCEPT !.pc = "write", !.resp.hasError = TRUE,
                                     !.resp.error = job.Error]
                   ELSE [poll EXCEPT !.pc = "write"]
    /\ UNCHANGED <<now, jobStore, nextJob, pipe, returned, rejected, storeVars, chat, client, markdown, server, detail>>

\* writeJSON of the status response
PollWrite ==
    /\ poll.pc = "write"
    /\ poll' = PollIdle
    /\ UNCHANGED <<now, jobStore, nextJob, pipe, returned, rejected, storeVars, chat, client, markdown, server, detail>>

Poll == PollGet \/ PollReadStatus \/ PollReadResult \/ PollReadError \/ PollWrite

----------------------------------------------------------------------------
(* handlers/chat.go: ChatHandler.ServeHTTP and chatWithAgent *)

Messages == {"explain more"}

\* A chat request: the method, whether the body decodes, and the decoded fields
IsValidChat(req) ==
    req.method = "POST" /\ req.decodes /\ ~IsBlank(req.message)

ChatTokens == {"s1", ""}

ValidChats ==
    [method : {"POST"}, decodes : {TRUE}, message : Messages,
     sessionId : ChatTokens, userId : UserIDs, imageUrl : {""}]

InvalidChats ==
    {r \in [method : Methods, decodes : BOOLEAN, message : Messages \cup {" "},
            sessionId : {"s1"}, userId : {"u1"}, imageUrl : {""}] :
        ~IsValidChat(r)}

\* A chatWithAgent call before its first step
NewChat(req) ==
    [pc |-> "resolve", userID |-> DefaultUserID(req.userId),
     sessionID |-> DefaultSessionID(req.sessionId),
     message |-> req.message, imageURL |-> req.imageUrl,
     rs |-> NewResolve(DefaultUserID(req.userId), DefaultSessionID(req.sessionId)),
     enriched |-> [preamble |-> <<>>, message |-> req.message], firstGet |-> "",
     content |-> NilContent, sess |-> NoSession,
     event |-> NewEvent("", "", "", NilContent, 0),
     code |-> 0, reply |-> "", err |-> ""]

\* chatWithAgent has returned: its locals are gone, the request, the
\* resolution and the response stay
ChatReturn(c) ==
    [c EXCEPT !.pc = "done", !.enriched = [preamble |-> <<>>, message |-> c.message],
              !.firstGet = "", !.content = NilContent, !.sess = NoSession,
              !.event = NewEvent("", "", "", NilContent, 0)]

\* a request answered by ServeHTTP before chatWithAgent is called
ChatRejected(req, code, message) ==
    [NewChat(req) EXCEPT !.pc = "done", !.code = code, !.err = message]

\* ServeHTTP up to the call of chatWithAgent
ChatServeHTTP(req) ==
    IF req.method # "POST" THEN ChatRejected(req, 405, "Method not allowed")
    ELSE IF ~req.decodes THEN ChatRejected(req, 400, "Invalid request")
    ELSE IF IsBlank(req.message) THEN ChatRejected(req, 400, "Message is required")
    ELSE NewChat(req)

\* chatWithAgent returning an error: ServeHTTP answers 500 with its text
ChatError(c, msg) ==
    [ChatReturn(c) EXCEPT !.code = 500, !.err = msg]

\* the preamble put before the message whatever the state holds
Enrich_Always(state, message) ==
    [preamble |-> << <<"json", IF StateHas(state, "analysis_result")
                               THEN state["analysis_result"] ELSE << >> >> >>,
     message |-> message]

\* the enrichment of the message with the analysis context held in state
Enrich(state, message) ==
    IF StateHas(state, "analysis_result")
    THEN [preamble |->
            (IF StateHas(state, "title") THEN <<<<"title", state["title"]>>>> ELSE <<>>)
            \o (IF StateHas(state, "overall_score")
                THEN <<<<"score", state["overall_score"]>>>> ELSE <<>>)
            \o <<<<"json", state["analysis_result"]>>>>,
          message |-> message]
    ELSE [preamble |-> <<>>, message |-> message]

\* genai.NewContentFromParts of the text and an image URI
NewContentFromParts(text, uri, role) ==
    [Role |-> role, Parts |-> <<[Text |-> text], [URI |-> uri]>>]

\* the content built without a new image: the stored original image is
\* attached when state holds a non-empty original_image_url
FollowUpContent(state, enriched) ==
    IF StateHas(state, "original_image_url") /\ state["original_image_url"] # ""
    THEN NewContentFromParts(enriched, state["original_image_url"], "user")
    ELSE NewContentFromText(enriched, "user")

ChatId(i) == "chat-" \o ToString(i)

ChatDoc(i) == sessionDocRef(AppName, chat[i].userID, chat[i].rs.id)

ChatLocal == <<now, jobStore, nextJob, pipe, returned, rejected, poll, client, markdown,
              server, detail>>

ChatAt(i, pcs) == i \in DOMAIN chat /\ chat[i].pc \in pcs

\* ServeHTTP on one request
ChatStep(req) ==
    /\ Len(chat) < MaxChats
    /\ chat' = Append(chat, ChatServeHTTP(req))
    /\ UNCHANGED <<ChatLocal, storeVars>>

ChatAccept == \E req \in ValidChats : ChatStep(req)

\* visits with the same token
ChatAcceptSame == \E req \in {r \in ValidChats : r.sessionId = "s1"} : ChatStep(req)

ChatReject == \E req \in InvalidChats : ChatStep(req)

\* where chatWithAgent goes when resolveSessionID has returned
ChatAfterResolve(c, rs) ==
    IF rs.err # "" THEN [ChatError(c, rs.err) EXCEPT !.rs = rs]
    ELSE [c EXCEPT !.rs = rs, !.pc = "enrich"]

\* resolveSessionID: sessionService.List and what follows it
ChatResolveList(i) ==
    /\ ChatAt(i, {"resolve"})
    /\ chat[i].rs.pc = "list"
    /\ \E nrs \in ResolveListOutcomes(chat[i].rs, docs) :
         chat' = [chat EXCEPT ![i] = IF nrs.pc = "done" THEN ChatAfterResolve(@, nrs)
                                     ELSE [@ EXCEPT !.rs = nrs]]
    /\ UNCHANGED <<ChatLocal, storeVars>>

\* resolveSessionID over a session.Service whose Create may answer with a
\* conversation of empty or blank id (nothing is stored then)
ChatResolveCreateAny(i) ==
    /\ ChatAt(i, {"resolve"})
    /\ chat[i].rs.pc = "create"
    /\ \/ \E o \in ResolveCreateOutcomes(chat[i].rs, docs, now) :
            /\ docs' = o.docs
            /\ chat' = [chat EXCEPT ![i] = ChatAfterResolve(@, o.rs)]
       \/ \E id \in {"", " "} :
            /\ UNCHANGED docs
            /\ chat' = [chat EXCEPT
                          ![i] = ChatAfterResolve(@,
                                    [resolve_AfterCreate(chat[i].rs, TRUE, id)
                                        EXCEPT !.creates = @ + 1])]
    /\ UNCHANGED <<ChatLocal, events, appendLog>>

\* resolveSessionID: sessionService.Create and what follows it
ChatResolveCreate(i) ==
    /\ ChatAt(i, {"resolve"})
    /\ chat[i].rs.pc = "create"
    /\ \E o \in ResolveCreateOutcomes(chat[i].rs, docs, now) :
         /\ docs' = o.docs
         /\ chat' = [chat EXCEPT ![i] = ChatAfterResolve(@, o.rs)]
    /\ UNCHANGED <<ChatLocal, events, appendLog>>

\* the first SessionService.Get: the message is enriched when it succeeds;
\* with a new image the content is built at once
ChatEnrich(i) ==
    /\ ChatAt(i, {"enrich"})
    /\ \E ok \in {b \in BOOLEAN : b => ChatDoc(i) \in DOMAIN docs} :
         LET e == IF ok THEN Enrich(docs[ChatDoc(i)].State, chat[i].message)
                  ELSE chat[i].enriched
         IN  chat' = [chat EXCEPT
                        ![i].enriched = e,
                        ![i].firstGet = IF ok THEN "ok" ELSE "error",
                        ![i].content = IF chat[i].imageURL # ""
                                       THEN NewContentFromParts(e, chat[i].imageURL, "user")
                                       ELSE @,
                        ![i].pc = IF chat[i].imageURL # "" THEN "run_get" ELSE "image"]
    /\ UNCHANGED <<ChatLocal, storeVars>>

\* the second SessionService.Get, made when the request has no image
ChatImage(i) ==
    /\ ChatAt(i, {"image"})
    /\ \E ok \in {b \in BOOLEAN : b => ChatDoc(i) \in DOMAIN docs} :
         chat' = [chat EXCEPT
                    ![i].content = IF ok THEN FollowUpContent(docs[ChatDoc(i)].State,
                                                              chat[i].enriched)
                                   ELSE NewContentFromText(chat[i].enriched, "user"),
                    ![i].pc = "run_get"]
    /\ UNCHANGED <<ChatLocal, storeVars>>

\* runner.Run: the session is fetched and the user's event is made
ChatRunGet(i) ==
    /\ ChatAt(i, {"run_get"})
    /\ \/ /\ ChatDoc(i) \in DOMAIN docs
          /\ \E eventsOK \in BOOLEAN :
               chat' = [chat EXCEPT
                          ![i].sess = FirestoreService_Get(docs, events, AppName,
                                          chat[i].userID, chat[i].rs.id, eventsOK),
                          ![i].event = NewEvent(ChatId(i) \o "-user", "inv-" \o ChatId(i),
                                                "user", chat[i].content, now),
                          ![i].pc = "run_user_update"]
       \/ chat' = [chat EXCEPT ![i] = ChatError(@, "session not found")]
    /\ UNCHANGED <<ChatLocal, storeVars>>

\* runner.Run: AppendEvent of the user's or of the agent's event, docRef.Update
ChatRunUpdate(i) ==
    /\ ChatAt(i, {"run_user_update", "run_model_update"})
    /\ \E o \in AppendUpdateOutcomes(docs, chat[i].sess, now) :
         /\ docs' = o.docs
         /\ chat' = [chat EXCEPT
                       ![i] = IF ~o.ok THEN ChatError(@, "failed to update session")
                              ELSE [@ EXCEPT !.pc = IF chat[i].pc = "run_user_update"
                                                    THEN "run_user_add"
                                                    ELSE "run_model_add"]]
    /\ UNCHANGED <<ChatLocal, events, appendLog>>

\* runner.Run: AppendEvent's Add and the in-process append
ChatRunAdd(i) ==
    /\ ChatAt(i, {"run_user_add", "run_model_add"})
    /\ \E o \in AppendAddOutcomes(events, appendLog, chat[i].sess, chat[i].event) :
         /\ events' = o.events
         /\ appendLog' = o.log
         /\ chat' = [chat EXCEPT
                       ![i] = IF ~o.ok THEN ChatError(@, "failed to append event")
                              ELSE [@ EXCEPT
                                      !.sess = AppendEvent_InMemory(@, chat[i].event),
                                      !.pc = IF chat[i].pc = "run_user_add"
                                             THEN "agent" ELSE "reply"]]
    /\ UNCHANGED <<ChatLocal, docs>>

\* runner.Run: the agent yields an error, a final event, or nothing
ChatAgent(i) ==
    /\ ChatAt(i, {"agent"})
    /\ \/ \E e \in ErrTexts : chat' = [chat EXCEPT ![i] = ChatError(@, e)]
       \/ \E t \in {"try a lower angle", " "} :
            chat' = [chat EXCEPT
                       ![i].event = NewEvent(ChatId(i) \o "-model", "inv-" \o ChatId(i),
                                             "photo_coach",
                                             NewContentFromText(t, "model"), now),
                       ![i].pc = "run_model_update"]
       \/ chat' = [chat EXCEPT ![i] = ChatError(@, "chat response missing")]
    /\ UNCHANGED <<ChatLocal, storeVars>>

\* the text taken as it is
TrimSpace_Identity(s) == s

\* strings.TrimSpace of a text without surrounding whitespace, or blank
TrimSpace(s) == IF IsBlank(s) THEN "" ELSE s

\* the loop of extractText: part.Text is empty for a part that is not text
RECURSIVE JoinTexts(_, _)
JoinTexts(parts, i) ==
    IF i > Len(parts) THEN ""
    ELSE (IF "Text" \in DOMAIN parts[i] THEN parts[i].Text ELSE "")
         \o JoinTexts(parts, i + 1)

\* extractText: the texts of the parts of a content, joined
extractText(content) ==
    IF content = NilContent THEN "" ELSE JoinTexts(content.Parts, 1)

\* the handler storing the reply itself, after the run has stored it
ChatReply_Appends(i) ==
    /\ ChatAt(i, {"reply"})
    /\ LET text == TrimSpace(extractText(chat[i].event.Content))
       IN  chat' = [chat EXCEPT
                      ![i] = IF text # ""
                             THEN [ChatReturn(@) EXCEPT !.code = 200, !.reply = text]
                             ELSE ChatError(@, "chat response missing")]
    /\ events' = EventsAdd(events, ChatDoc(i), EventDocument(chat[i].event),
                           Len(EventDocsOf(events, ChatDoc(i))) + 1)
    /\ UNCHANGED <<ChatLocal, docs, appendLog>>

\* the final event reaches the loop of chatWithAgent
ChatReply(i) ==
    /\ ChatAt(i, {"reply"})
    /\ LET text == TrimSpace(extractText(chat[i].event.Content))
       IN  chat' = [chat EXCEPT
                      ![i] = IF text # ""
                             THEN [ChatReturn(@) EXCEPT !.code = 200, !.reply = text]
                             ELSE ChatError(@, "chat response missing")]
    /\ UNCHANGED <<ChatLocal, storeVars>>

ChatCall ==
    \E i \in 1..MaxChats :
        \/ ChatResolveList(i) \/ ChatResolveCreate(i)
        \/ ChatEnrich(i) \/ ChatImage(i)
        \/ ChatRunGet(i) \/ ChatRunUpdate(i) \/ ChatRunAdd(i)
        \/ ChatAgent(i) \/ ChatReply(i)

\* no goroutine and no request is under way
Quiet ==
    /\ \A j \in DOMAIN pipe : pipe[j].pc = "done"
    /\ \A i \in DOMAIN chat : chat[i].pc = "done"

----------------------------------------------------------------------------
(* A caller of the session service: Create, Get, UpdateState, AppendEvent *)

ClientSessionIDs == {"c1"}

Called(op, id, updates, ok) ==
    [op |-> op, userID |-> "u1", id |-> id, updates |-> updates, ok |-> ok]

\* the caller: the session object it holds and its last call
NewClient == [got |-> NoSession, last |-> Called("", "", EmptyState, FALSE)]

ClientLocal == <<jobStore, nextJob, pipe, returned, rejected, poll, chat, markdown,
                server, detail>>

\* Create; with reqSessionID "" the id is made from the clock
ClientCreateStep(userID, reqSessionID, state) ==
    LET c == FirestoreService_Create(docs, AppName, userID, reqSessionID, state, now)
    IN  /\ \/ /\ docs' = c.docs
              /\ client' = [got |-> c.sess,
                            last |-> Called("Create", c.sess.id, state, TRUE)]
           \/ /\ UNCHANGED docs
              /\ client' = [client EXCEPT
                              !.last = Called("Create", reqSessionID, state, FALSE)]
        /\ UNCHANGED <<now, events, appendLog, ClientLocal>>

ClientCreate ==
    \E u \in UserIDs, id \in ClientSessionIDs, st \in {EmptyState} :
        ClientCreateStep(u, id, st)

ClientCreateNew ==
    \E u \in UserIDs, st \in {EmptyState, TokenState("s1"), TokenState("s2")} :
        ClientCreateStep(u, "", st)

\* Get of (AppName, u, id): docRef.Get, DataTo, getEvents
ClientGetStep(u, id) ==
    /\ \/ /\ sessionDocRef(AppName, u, id) \in DOMAIN docs
          /\ \E eventsOK \in BOOLEAN :
               client' = [got |-> FirestoreService_Get(docs, events, AppName, u, id,
                                                       eventsOK),
                          last |-> [Called("Get", id, EmptyState, eventsOK)
                                       EXCEPT !.userID = u]]
       \/ client' = [client EXCEPT !.last = [Called("GetError", id, EmptyState, FALSE)
                                                EXCEPT !.userID = u]]
    /\ UNCHANGED <<now, storeVars, ClientLocal>>

ClientGet == \E u \in UserIDs, id \in ClientSessionIDs : ClientGetStep(u, id)

\* a Get with the userId and the session id of a request, any strings
ClientGetAny ==
    \E u \in {"u1", "u2", "u1_session"}, id \in {"session_0", "session_1", "0", "1"} :
        ClientGetStep(u, id)

\* UpdateState: docRef.Get, the merge, docRef.Update
ClientUpdateState ==
    /\ \E u \in UserIDs, id \in ClientSessionIDs,
          updates \in {[k \in {"a"} |-> 1], [k \in {"b"} |-> 2], [k \in {"a"} |-> 2]} :
         LET name == sessionDocRef(AppName, u, id)
         IN  \/ /\ name \in DOMAIN docs
                /\ docs' = UpdateState_Write(docs, name, docs[name], updates, now)
                /\ client' = [client EXCEPT
                                !.last = Called("UpdateState", id, updates, TRUE)]
             \/ /\ UNCHANGED docs
                /\ client' = [client EXCEPT
                                !.last = Called("UpdateState", id, updates, FALSE)]
    /\ UNCHANGED <<now, events, appendLog, ClientLocal>>

\* AppendEvent on the session object the caller holds, of an event made at
\* any time, with a content or without one: the log line that reads
\* event.Content.Role, which panics on a nil Content; then docRef.Update,
\* then Add, then the in-process append
ClientAppendEvent ==
    /\ client.got # NoSession
    /\ LET sess == client.got
           name == sessionDocRef(sess.appName, sess.userID, sess.id)
       IN  /\ Len(EventDocsOf(events, name)) < MaxEvents
           /\ \E ts \in 0..MaxTime, content \in {NewContentFromText("hello", "user"),
                                                NilContent} :
                LET n == IF name \in DOMAIN appendLog THEN Len(appendLog[name]) ELSE 0
                    ev == NewEvent("e" \o ToString(n + 1), "inv", "user", content, ts)
                IN  IF ev.Content = NilContent
                    THEN /\ UNCHANGED <<docs, events, appendLog>>
                         /\ client' = [client EXCEPT
                              !.last = Called("AppendEvent panic", sess.id, EmptyState, FALSE)]
                    ELSE
                    \E u \in AppendUpdateOutcomes(docs, sess, now) :
                      /\ docs' = u.docs
                      /\ IF ~u.ok
                         THEN /\ UNCHANGED <<events, appendLog>>
                              /\ client' = [client EXCEPT
                                   !.last = Called("AppendEvent", sess.id, EmptyState, FALSE)]
                         ELSE \E a \in AppendAddOutcomes(events, appendLog, sess, ev) :
                                /\ events' = a.events
                                /\ appendLog' = a.log
                                /\ client' =
                                     [got |-> IF a.ok THEN AppendEvent_InMemory(sess, ev)
                                              ELSE sess,
                                      last |-> Called("AppendEvent", sess.id, EmptyState,
                                                      a.ok)]
    /\ UNCHANGED <<now, ClientLocal>>

----------------------------------------------------------------------------
(* handlers/test_gemini.go: fixMarkdownBold *)

\* A text is a sequence of characters; the argument texts are made of the
\* pieces "**", " ", "a" and "*"
Texts == UNION {[1..n -> {"**", " ", "a", "*"}] : n \in 0..MaxText}

RECURSIVE Chars(_, _)
Chars(pieces, i) ==
    IF i > Len(pieces) THEN << >>
    ELSE (IF pieces[i] = "**" THEN <<"*", "*">> ELSE <<pieces[i]>>) \o Chars(pieces, i + 1)

\* the length of the run of whitespace that starts at p
RECURSIVE SpaceRun(_, _)
SpaceRun(t, p) ==
    IF p <= Len(t) /\ t[p] = " " THEN 1 + SpaceRun(t, p + 1) ELSE 0

\* \*\* at p
Stars(t, p) == p + 1 <= Len(t) /\ t[p] = "*" /\ t[p + 1] = "*"

\* The match of \*\*\s+(.+?)\s+\*\* that starts at i, if there is one: the
\* first \s+ takes a characters, the group c characters, the second \s+ the
\* whole run of whitespace after the group; of the ways to match, the one
\* with the longest first run (greedy) and then the shortest group (lazy)
MatchAt(t, i) ==
    LET ways == {w \in (1..SpaceRun(t, i + 2)) \X (1..Len(t)) :
                    LET q == i + 2 + w[1] + w[2]
                    IN  /\ Stars(t, i)
                        /\ SpaceRun(t, q) >= 1
                        /\ Stars(t, q + SpaceRun(t, q))}
    IN  IF ways = {} THEN [ok |-> FALSE, from |-> 0, to |-> 0, end |-> 0]
        ELSE LET w == CHOOSE x \in ways :
                        \A y \in ways : y[1] < x[1] \/ (y[1] = x[1] /\ y[2] >= x[2])
                 p == i + 2 + w[1]
                 q == p + w[2]
             IN  [ok |-> TRUE, from |-> p, to |-> q - 1,
                  end |-> q + SpaceRun(t, q) + 2]

\* ReplaceAllString(text, `**$1**`): the matches are taken from left to
\* right without overlap, the text between them is copied
RECURSIVE ReplaceAll(_, _)
ReplaceAll(t, i) ==
    IF i > Len(t) THEN << >>
    ELSE LET m == MatchAt(t, i)
         IN  IF m.ok
             THEN <<"*", "*">> \o SubSeq(t, m.from, m.to) \o <<"*", "*">>
                  \o ReplaceAll(t, m.end)
             ELSE <<t[i]>> \o ReplaceAll(t, i + 1)

fixMarkdownBold(text) == ReplaceAll(text, 1)

NoCall == [pieces |-> << >>, input |-> << >>, output |-> << >>, done |-> FALSE]

FixBold ==
    /\ ~markdown.done
    /\ markdown' = [markdown EXCEPT !.output = fixMarkdownBold(markdown.input),
                                    !.done = TRUE]
    /\ UNCHANGED <<now, jobStore, nextJob, pipe, returned, rejected, poll, storeVars,
                   chat, client, server, detail>>

----------------------------------------------------------------------------
(* api/server.go: NewServer, and the router it builds *)

\* GOOGLE_CLOUD_PROJECT, GOOGLE_CLOUD_LOCATION and AGENT_ENGINE_ID as the
\* process finds them, "" when unset
Envs == [project : {"", "proj"}, location : {"", "asia"}, engine : {"", "eng"}]

\* the environment of a deployment with the project alone
FirestoreEnv == [project |-> "proj", location |-> "", engine |-> ""]

\* the process before NewServer; can.x tells whether the constructor of x
\* succeeds in this deployment
NotStarted(env, can) ==
    [pc |-> "down", env |-> env, can |-> can, sessionService |-> "nil",
     deps |-> "nil", served |-> << >>]

\* NewServer without the in-memory store after a failed Firestore client
NewServer_NoFallback(p) ==
    LET vertex == IF p.env.project # "" /\ p.env.location # "" /\ p.env.engine # ""
                     /\ p.can.vertexai
                  THEN "vertexai" ELSE "nil"
        fire == IF vertex = "nil" /\ p.env.project # ""
                THEN (IF p.can.firestore THEN "firestore" ELSE "nil")
                ELSE vertex
    IN  IF ~p.can.agent THEN [p EXCEPT !.pc = "failed"]
        ELSE [p EXCEPT !.pc = "up", !.sessionService = fire, !.deps = fire]

\* NewServer: the agent, then the three ifs on sessionService in their order,
\* then NewDependencies and newRouter
NewServer(p) ==
    LET vertex == IF p.env.project # "" /\ p.env.location # "" /\ p.env.engine # ""
                     /\ p.can.vertexai
                  THEN "vertexai" ELSE "nil"
        fire == IF vertex = "nil" /\ p.env.project # ""
                THEN (IF p.can.firestore THEN "firestore" ELSE "memory")
                ELSE vertex
        last == IF fire = "nil" THEN "memory" ELSE fire
    IN  IF ~p.can.agent THEN [p EXCEPT !.pc = "failed"]
        ELSE [p EXCEPT !.pc = "up", !.sessionService = last, !.deps = last]

StartServer ==
    /\ server.pc = "down"
    /\ server' = NewServer(server)
    /\ UNCHANGED <<now, jobStore, nextJob, pipe, returned, rejected, poll, storeVars,
                   chat, client, markdown, detail>>

\* a request routed to the upload or the chat handler, which takes the
\* session service from the Dependencies it was built with
Serve ==
    /\ server.pc = "up"
    /\ Len(server.served) < MaxRequests
    /\ \E route \in {"POST /photo/analyze", "POST /photo/chat"} :
         server' = [server EXCEPT !.served =
                        Append(@, [route |-> route, sessionService |-> server.deps])]
    /\ UNCHANGED <<now, jobStore, nextJob, pipe, returned, rejected, poll, storeVars,
                   chat, client, markdown, detail>>

----------------------------------------------------------------------------
(* handlers/sessions.go: getSessionDetail *)

NoDetail == [got |-> NoSession, ok |-> FALSE, messages |-> << >>, messageCount |-> 0,
             done |-> FALSE]

\* the loop over the events appending a message for every event with content
RECURSIVE DetailMessages_AllEvents(_, _)
DetailMessages_AllEvents(evs, i) ==
    IF i > Len(evs) THEN << >>
    ELSE <<[Role |-> IF evs[i].Content # NilContent /\ evs[i].Content.Role = "user"
                     THEN "user" ELSE "agent",
            Content |-> extractText(evs[i].Content),
            Timestamp |-> evs[i].Timestamp]>>
         \o DetailMessages_AllEvents(evs, i + 1)

\* the loop over sess.Events(): continue on a nil Content and on a role other
\* than user and model; the non-empty part texts are concatenated and a
\* MessageInfo is appended when the concatenation is not empty
RECURSIVE DetailMessages(_, _)
DetailMessages(evs, i) ==
    IF i > Len(evs) THEN << >>
    ELSE LET event == evs[i]
             role == IF event.Content.Role = "user" THEN "user" ELSE "agent"
             content == JoinTexts(event.Content.Parts, 1)
         IN  (IF event.Content = NilContent THEN << >>
              ELSE IF event.Content.Role \notin {"user", "model"} THEN << >>
              ELSE IF content = "" THEN << >>
              ELSE <<[Role |-> role, Content |-> content,
                      Timestamp |-> event.Timestamp]>>)
             \o DetailMessages(evs, i + 1)

\* getSessionDetail: the error of Get is returned; otherwise the messages are
\* taken from the events of the session and counted
GetSessionDetail ==
    /\ ~detail.done
    /\ \/ detail' = [detail EXCEPT !.done = TRUE]
       \/ LET messages == DetailMessages(detail.got.events, 1)
          IN  detail' = [detail EXCEPT !.done = TRUE, !.ok = TRUE,
                                       !.messages = messages,
                                       !.messageCount = Len(messages)]
    /\ UNCHANGED <<now, jobStore, nextJob, pipe, returned, rejected, poll, storeVars,
                   chat, client, markdown, server>>

----------------------------------------------------------------------------
(* The clock, and a caller of JobStore.Cleanup *)

Tick ==
    /\ now < MaxTime
    /\ now' = now + 1
    /\ UNCHANGED <<jobStore, nextJob, pipe, returned, rejected, poll, storeVars, chat, client, markdown, server, detail>>

Sweep ==
    /\ \E maxAge \in 0..MaxTime : jobStore' = JobStore_Cleanup(jobStore, maxAge, now)
    /\ UNCHANGED <<now, nextJob, pipe, returned, rejected, poll, storeVars, chat, client, markdown, server, detail>>

----------------------------------------------------------------------------
(* Specifications *)

Init ==
    /\ now = 0
    /\ jobStore = NewJobStore
    /\ nextJob = 0
    /\ pipe = <<>>
    /\ returned = {}
    /\ rejected = [code |-> 0, error |-> "", jobId |-> "", status |-> ""]
    /\ poll = PollIdle
    /\ docs = <<>>
    /\ events = <<>>
    /\ appendLog = <<>>
    /\ chat = <<>>
    /\ client = NewClient
    /\ markdown = NoCall
    /\ server = NewServer(NotStarted(FirestoreEnv, [agent |-> TRUE, vertexai |-> TRUE,
                                                   firestore |-> TRUE]))
    /\ detail = NoDetail

\* the upload handler on well-formed uploads, its pipelines, the status handler
NextJobs == UploadAccept \/ UploadRespond \/ Pipeline \/ Poll \/ Tick

SpecJobs == Init /\ [][NextJobs]_vars

\* the same, each started goroutine being scheduled again and again and
\* each call it makes returning (with a result or an error)
SpecJobsFair == Init /\ [][NextJobs]_vars /\ \A j \in JobIds : WF_vars(PipelineOf(j))

\* the same with a sweeper calling Cleanup
NextSweep == NextJobs \/ Sweep

SpecSweep == Init /\ [][NextSweep]_vars

\* the upload handler on every request, and its pipelines
NextUpload == UploadAccept \/ UploadReject \/ UploadRespond \/ Pipeline \/ Tick

SpecUpload == Init /\ [][NextUpload]_vars

\* chat requests served at the same time
NextChat == ChatAcceptSame \/ ChatCall \/ Tick

SpecChat == Init /\ [][NextChat]_vars

\* uploads and chats served one after the other: a request is taken when the
\* one before it, and the goroutine it started, have finished
NextSeq ==
    \/ /\ Quiet
       /\ nextJob + Len(chat) < MaxRequests
       /\ (UploadAccept \/ ChatAccept \/ ChatReject)
    \/ Pipeline \/ ChatCall \/ Tick

SpecSeq == Init /\ [][NextSeq]_vars

\* chats served one after the other over a session service that may return
\* conversations without an id
NextAnyService ==
    \/ Quiet /\ ChatAccept
    \/ \E i \in 1..MaxChats :
          \/ ChatResolveList(i) \/ ChatResolveCreateAny(i)
          \/ ChatEnrich(i) \/ ChatImage(i)
          \/ ChatRunGet(i) \/ ChatRunUpdate(i) \/ ChatRunAdd(i)
          \/ ChatAgent(i) \/ ChatReply(i)
    \/ Tick

SpecAnyService == Init /\ [][NextAnyService]_vars

\* calls of fixMarkdownBold
InitBold ==
    /\ now = 0
    /\ jobStore = NewJobStore
    /\ nextJob = 0
    /\ pipe = <<>>
    /\ returned = {}
    /\ rejected = [code |-> 0, error |-> "", jobId |-> "", status |-> ""]
    /\ poll = PollIdle
    /\ docs = <<>>
    /\ events = <<>>
    /\ appendLog = <<>>
    /\ chat = <<>>
    /\ client = NewClient
    /\ \E pieces \in Texts :
          markdown = [NoCall EXCEPT !.pieces = pieces, !.input = Chars(pieces, 1)]
    /\ server = NewServer(NotStarted(FirestoreEnv, [agent |-> TRUE, vertexai |-> TRUE,
                                                   firestore |-> TRUE]))
    /\ detail = NoDetail

SpecBold == InitBold /\ [][FixBold]_vars

\* a process started in any environment, then serving requests
InitServer ==
    /\ now = 0
    /\ jobStore = NewJobStore
    /\ nextJob = 0
    /\ pipe = <<>>
    /\ returned = {}
    /\ rejected = [code |-> 0, error |-> "", jobId |-> "", status |-> ""]
    /\ poll = PollIdle
    /\ docs = <<>>
    /\ events = <<>>
    /\ appendLog = <<>>
    /\ chat = <<>>
    /\ client = NewClient
    /\ markdown = NoCall
    /\ detail = NoDetail
    /\ \E env \in Envs, can \in [agent : BOOLEAN, vertexai : BOOLEAN, firestore : BOOLEAN] :
          server = NotStarted(env, can)

NextServer == StartServer \/ Serve

SpecServer == InitServer /\ [][NextServer]_vars

\* a call of getSessionDetail on a conversation that holds events of every
\* kind: without content, by the user, by the model in one or several parts,
\* with a part that is not text, without parts, with another role
InitDetail ==
    /\ now = 0
    /\ jobStore = NewJobStore
    /\ nextJob = 0
    /\ pipe = <<>>
    /\ returned = {}
    /\ rejected = [code |-> 0, error |-> "", jobId |-> "", status |-> ""]
    /\ poll = PollIdle
    /\ docs = <<>>
    /\ events = <<>>
    /\ appendLog = <<>>
    /\ chat = <<>>
    /\ client = NewClient
    /\ markdown = NoCall
    /\ server = NewServer(NotStarted(FirestoreEnv, [agent |-> TRUE, vertexai |-> TRUE,
                                                   firestore |-> TRUE]))
    /\ \E n \in 0..MaxEvents :
         \E cs \in [1..n -> {NilContent,
                             NewContentFromText("hi", "user"),
                             NewContentFromText("ok", "model"),
                             NewContentFromText("", "user"),
                             NewContentFromText("call", "tool"),
                             NewContentFromParts("see", "gs://b/o", "user"),
                             [Role |-> "model",
                              Parts |-> <<[Text |-> "a"], [Text |-> ""], [Text |-> "b"]>>],
                             [Role |-> "model", Parts |-> << >>]}] :
            detail = [NoDetail EXCEPT !.got =
                        FirestoreSession("c1", AppName, "u1", EmptyState,
                            [i \in 1..n |-> NewEvent("e" \o ToString(i), "inv",
                                                     IF cs[i] # NilContent /\ cs[i].Role = "user"
                                                     THEN "user" ELSE "photo_coach",
                                                     cs[i], i)],
                            n)]

SpecDetail == InitDetail /\ [][GetSessionDetail]_vars

\* a caller of the session service on one conversation
NextStore ==
    ClientCreate \/ ClientGet \/ ClientUpdateState \/ ClientAppendEvent \/ Tick

SpecStore == Init /\ [][NextStore]_vars

\* a chat request arriving at a store that holds conversations made earlier
NextVisit ==
    \/ chat = <<>> /\ (ClientCreateNew \/ Tick \/ ChatAccept)
    \/ ChatCall

SpecVisit == Init /\ [][NextVisit]_vars

\* conversations created by one user, and Gets made in the name of any user
NextOwners == ClientCreateNew \/ ClientGetAny \/ Tick

SpecOwners == Init /\ [][NextOwners]_vars

\* a chat request that arrives while the goroutine of an upload is about to
\* write the state of the conversation it resolved
NextRace ==
    \/ UploadAccept
    \/ /\ chat = <<>>
       /\ \E j \in DOMAIN pipe : pipe[j].pc \in {"update_get", "update_write"}
       /\ ChatAcceptSame
    \/ Pipeline \/ ChatCall

SpecRace == Init /\ [][NextRace]_vars

----------------------------------------------------------------------------
(* Job lifecycle *)

StatusSteps ==
    {<<JobStatusPending, JobStatusProcessing>>,
     <<JobStatusProcessing, JobStatusCompleted>>,
     <<JobStatusProcessing, JobStatusFailed>>}

\* C1: in every step, every job keeps its status or moves along
\* pending -> processing -> (completed | failed); never back to pending,
\* never from completed to failed or from failed to completed.
C1_StatusMonotone ==
    [][\A p \in 1..Len(jobStore.heap) :
         \/ jobStore'.heap[p].Status = jobStore.heap[p].Status
         \/ <<jobStore.heap[p].Status, jobStore'.heap[p].Status>> \in StatusSteps]_vars

\* a job that failed, and one that completed and was then swept
C1_Witness ==
    \E p \in 1..Len(jobStore.heap) :
        /\ jobStore.heap[p].Status = JobStatusCompleted
        /\ jobStore.heap[p].ID \notin DOMAIN jobStore.jobs

JobStatuses ==
    {JobStatusPending, JobStatusProcessing, JobStatusCompleted, JobStatusFailed}

\* C9: a job id written in a 202 response, and the job of every started
\* pipeline, is in the registry; a status request made after the response
\* is answered 200 with one of the four statuses, never 404.
C9_ReturnedJobIsRegistered ==
    /\ \A id \in returned \cup DOMAIN pipe : id \in DOMAIN jobStore.jobs
    /\ (poll.pc = "write" /\ poll.known) =>
          /\ poll.resp.code = 200
          /\ poll.resp.jobId = poll.id
          /\ poll.resp.status \in JobStatuses

\* a status request made after the 202 and answered while the job is pending
C9_Witness ==
    /\ poll.pc = "write"
    /\ poll.known
    /\ poll.resp.status = JobStatusPending

\* C10: an upload that fails validation is answered 405 or 400, and the step
\* that answers it changes neither the registry nor the set of pipelines.
C10_RejectedUploadChangesNothing ==
    /\ [](\A req \in InvalidUploads :
            AnalyzeServeHTTP(jobStore, req, JobId(nextJob + 1), now).code \in {400, 405})
    /\ [][rejected' # rejected =>
            /\ rejected'.code \in {400, 405}
            /\ jobStore' = jobStore
            /\ pipe' = pipe
            /\ nextJob' = nextJob]_vars

\* an upload without its file rejected while a job is in the registry
C10_Witness ==
    /\ rejected.code = 400
    /\ rejected.error = "Failed to read file"
    /\ DOMAIN jobStore.jobs # {}

----------------------------------------------------------------------------
(* Session resolution *)

\* the calls of resolveSessionID that have just returned an id: of a chat
\* before its first Get, of a pipeline before its state update
JustResolved ==
    {chat[i].rs : i \in {k \in DOMAIN chat : chat[k].pc = "enrich"}}
    \cup {pipe[j].rs : j \in {k \in DOMAIN pipe : pipe[k].pc = "update_get"}}

ResolvedDoc(rs) == sessionDocRef(AppName, rs.userID, rs.id)

C3_OneConversationPerToken ==
    (\A i \in DOMAIN chat : ~chat[i].rs.listFailed) =>
        \A u \in UserIDs, t \in ChatTokens \ {""} :
            Cardinality(Carriers(docs, u, t)) <= 1

C8_ListFailureFallsBackToCreate ==
    /\ \A rs \in JustResolved :
         (rs.listFailed /\ rs.creates = 1) =>
             /\ rs.err = ""
             /\ rs.id # ""
             /\ ResolvedDoc(rs) \in DOMAIN docs
             /\ docs[ResolvedDoc(rs)].State = TokenState(rs.sessionID)
    /\ \A i \in DOMAIN chat :
         (chat[i].rs.listFailed /\ chat[i].rs.creates = 1) =>
             /\ chat[i].rs.err = ""
             /\ chat[i].pc = "done" =>
                  chat[i].err # "failed to list sessions for user " \o chat[i].userID

\* a chat whose listing failed is answered with a reply
C8_Witness ==
    \E i \in DOMAIN chat :
        /\ chat[i].rs.listFailed
        /\ chat[i].rs.creates = 1
        /\ chat[i].code = 200

----------------------------------------------------------------------------
(* Session service *)

ClientDoc == sessionDocRef(AppName, "u1", client.last.id)

EventIds(evs) == [i \in 1..Len(evs) |-> evs[i].ID]

\* C4: a successful UpdateState leaves every key of its updates with the new
\* value and every other stored key with the value it had, and a Get reads
\* the stored state: after {a: 1} and then {b: 2} it reads a = 1 and b = 2.
C4_UpdateStateMerges ==
    /\ [](client.last.op = "Get" => client.got.state = docs[ClientDoc].State)
    /\ [][(client'.last.op = "UpdateState" /\ client'.last.ok) =>
            LET name == sessionDocRef(AppName, "u1", client'.last.id)
                old == docs[name].State
                new == docs'[name].State
                updates == client'.last.updates
            IN  /\ \A k \in DOMAIN updates : k \in DOMAIN new /\ new[k] = updates[k]
                /\ \A k \in DOMAIN old \ DOMAIN updates :
                     k \in DOMAIN new /\ new[k] = old[k]]_vars

\* a Get that reads a = 1 and b = 2
C4_Witness ==
    /\ client.last.op = "Get"
    /\ StateHas(client.got.state, "a") /\ client.got.state["a"] = 1
    /\ StateHas(client.got.state, "b") /\ client.got.state["b"] = 2

\* C5: a Get that reads the events returns them in the order in which
\* AppendEvent added them, whatever their timestamps (here: no two equal).
C5_GetReturnsAppendOrder ==
    (/\ client.last.op = "Get" /\ client.last.ok
     /\ ClientDoc \in DOMAIN appendLog
     /\ \A i, j \in 1..Len(client.got.events) :
          i # j => client.got.events[i].Timestamp # client.got.events[j].Timestamp)
    => EventIds(client.got.events) = appendLog[ClientDoc]

\* C6: a conversation whose log holds the seeded summary of an analysis has
\* the keys of that analysis in its stored state.
C6_SummaryAfterStateKeys ==
    \A n \in DOMAIN events :
        (\E i \in 1..Len(events[n]) : events[n][i].Author = "photo_coach") =>
            /\ n \in DOMAIN docs
            /\ {"analysis_result", "title", "overall_score", "original_image_url",
                "enhanced_image_url"} \subseteq DOMAIN docs[n].State

----------------------------------------------------------------------------
(* Status polling *)

CompletedJobs ==
    {p \in 1..Len(jobStore.heap) : jobStore.heap[p].Status = JobStatusCompleted}

\* C11: a step of the status handler leaves the registry as it was; a
\* completed job stays in the registry, completed and with the same result;
\* a status request for a completed job is not answered 404, reads the status
\* completed, and is answered with the result the job holds.
C11_PollingIsIdempotent ==
    /\ [][poll' # poll => jobStore' = jobStore]_vars
    /\ [][\A p \in CompletedJobs :
            /\ jobStore'.heap[p] = jobStore.heap[p]
            /\ jobStore.heap[p].ID \in DOMAIN jobStore'.jobs
            /\ jobStore'.jobs[jobStore.heap[p].ID] = p]_vars
    /\ [][\A p \in CompletedJobs :
            /\ (poll.pc = "idle" /\ poll'.id = jobStore.heap[p].ID) => poll'.pc = "status"
            /\ (poll.pc = "status" /\ poll.job = p /\ poll' # poll) =>
                   poll'.resp.status = JobStatusCompleted
            /\ (poll.pc = "result" /\ poll.job = p /\ poll' # poll) =>
                   /\ poll'.resp.hasResult
                   /\ poll'.resp.result = jobStore.heap[p].Result]_vars
    /\ [](\A p \in CompletedJobs :
            (poll.pc = "write" /\ poll.job = p /\ poll.resp.status = JobStatusCompleted)
                => /\ poll.resp.code = 200
                   /\ poll.resp.hasResult
                   /\ poll.resp.result = jobStore.heap[p].Result
                   /\ ~poll.resp.hasError)

\* a completed job reported with its result
C11_Witness ==
    /\ poll.pc = "write"
    /\ poll.resp.status = JobStatusCompleted
    /\ poll.resp.hasResult
    /\ poll.resp.result = jobStore.heap[poll.job].Result

\* C12: for every job, whether registered or removed from the map: it has a
\* Result exactly when its status is completed, and a non-empty Error
\* exactly when its status is failed.
C12_ResultAndErrorFollowStatus ==
    \A p \in 1..Len(jobStore.heap) :
        LET job == jobStore.heap[p]
        IN  /\ (job.Result # NoResult) <=> (job.Status = JobStatusCompleted)
            /\ (job.Error # "") <=> (job.Status = JobStatusFailed)

\* a failed job that carries its message and no result
C12_Witness ==
    \E p \in 1..Len(jobStore.heap) :
        /\ jobStore.heap[p].Status = JobStatusFailed
        /\ jobStore.heap[p].Error # ""
        /\ jobStore.heap[p].Result = NoResult

\* C13: the status, result and error of a 200 status response are the
\* fields the job had at one instant: a job has a result exactly while it is
\* completed and an error exactly while it is failed (C12), so the response
\* carries a result exactly when it says completed, with the job's result,
\* and an error exactly when it says failed, with the job's message.
C13_PollReportsOneInstant ==
    (poll.pc = "write" /\ poll.resp.code = 200) =>
        LET job == jobStore.heap[poll.job]
        IN  /\ poll.resp.hasResult <=> (poll.resp.status = JobStatusCompleted)
            /\ poll.resp.hasError <=> (poll.resp.status = JobStatusFailed)
            /\ poll.resp.hasResult => poll.resp.result = job.Result
            /\ poll.resp.hasError => poll.resp.error = job.Error

----------------------------------------------------------------------------
(* Termination of the pipeline *)

JobStatusOf(j) ==
    IF j \in DOMAIN jobStore.jobs THEN jobStore.heap[jobStore.jobs[j]].Status ELSE ""

\* C14: every job the upload handler has registered is eventually completed
\* or failed, whether status requests are made or not.
C14_EveryJobTerminates ==
    \A j \in JobIds :
        (j \in DOMAIN jobStore.jobs)
            ~> (JobStatusOf(j) \in {JobStatusCompleted, JobStatusFailed})

\* a job finished while no status request is in progress
C14_Witness ==
    \E j \in JobIds :
        /\ JobStatusOf(j) \in {JobStatusCompleted, JobStatusFailed}
        /\ pipe[j].pc = "done"
        /\ poll = PollIdle

----------------------------------------------------------------------------
(* Retention *)

\* C15: every registered job that is older than the retention window (here
\* the shortest one, zero) is eventually removed from the registry.
C15_OldJobsAreRemoved ==
    \A j \in JobIds :
        [](   (/\ j \in DOMAIN jobStore.jobs
               /\ jobStore.heap[jobStore.jobs[j]].CreatedAt < now)
           => <>(j \notin DOMAIN jobStore.jobs))

\* C35: no step removes from the registry a job whose status is pending or
\* processing: Cleanup leaves such a job in place whatever its age, so that
\* the pipeline's SetCompleted or SetFailed finds it and a poll for it is
\* answered NotFound only after it reached a terminal state.
C35_CleanupSparesRunningJobs ==
    [][\A j \in DOMAIN jobStore.jobs :
          jobStore.heap[jobStore.jobs[j]].Status
                \in {JobStatusPending, JobStatusProcessing}
             => j \in DOMAIN jobStore'.jobs]_vars

----------------------------------------------------------------------------
(* Chat after a completed job *)

\* the analysis in the result of a completed job
JobAnalysis(j) == jobStore.heap[jobStore.jobs[j]].Result.Analysis

\* job j is completed, and its steps 6 and 7 succeeded: a conversation of its
\* user carries its token and its analysis
CompletedAndWritten(j) ==
    /\ JobStatusOf(j) = JobStatusCompleted
    /\ \E n \in Carriers(docs, pipe[j].userID, pipe[j].sessionID) :
         /\ StateHas(docs[n].State, "analysis_result")
         /\ docs[n].State["analysis_result"] = MarshalAnalysis(JobAnalysis(j))

\* the chats in progress that have resolved the user and token of job j
ChatsAfter(j) ==
    {i \in DOMAIN chat :
        /\ chat[i].pc \notin {"resolve", "done"}
        /\ chat[i].userID = pipe[j].userID
        /\ chat[i].sessionID = pipe[j].sessionID}

\* the conversation chat i resolved holds the analysis, title and score of job j
HoldsAnalysisOf(i, j) ==
    /\ ChatDoc(i) \in DOMAIN docs
    /\ StateHas(docs[ChatDoc(i)].State, "analysis_result")
    /\ StateHas(docs[ChatDoc(i)].State, "title")
    /\ StateHas(docs[ChatDoc(i)].State, "overall_score")
    /\ docs[ChatDoc(i)].State["analysis_result"] = MarshalAnalysis(JobAnalysis(j))
    /\ docs[ChatDoc(i)].State["title"] = JobAnalysis(j).PhotoSummary
    /\ docs[ChatDoc(i)].State["overall_score"] = JobAnalysis(j).OverallScore

----------------------------------------------------------------------------
(* First chat of a token *)

\* the chats without an image that resolved a token other than "default"
\* which no earlier request of the user carried, no upload having been made
FirstChats ==
    {i \in DOMAIN chat :
        /\ nextJob = 0
        /\ chat[i].code # 400 /\ chat[i].code # 405
        /\ chat[i].sessionID # "default"
        /\ chat[i].imageURL = ""
        /\ chat[i].rs.pc = "done" /\ chat[i].rs.err = ""
        /\ \A k \in 1..(i - 1) :
             chat[k].userID # chat[i].userID \/ chat[k].sessionID # chat[i].sessionID}

----------------------------------------------------------------------------
(* Failures of the pipeline *)

\* steps 1 to 5 and the step that follows each
NextStep ==
    [pc \in {"storage", "resize", "upload", "analyze", "enhance"} |->
        CASE pc = "storage" -> "resize"
          [] pc = "resize" -> "upload"
          [] pc = "upload" -> "analyze"
          [] pc = "analyze" -> "enhance"
          [] OTHER -> "resolve"]

\* C18: each of steps 1 to 5 either succeeds, and the pipeline is at the
\* next step with the job still processing, or fails, and then the job is
\* failed, the pipeline has returned, no resolution was started and no
\* conversation, state or event was written; a failed job and its pipeline
\* never change again (no retry, no later step, never completed).
C18_EarlyFailureHaltsPipeline ==
    /\ [][\A j \in DOMAIN pipe :
            (pipe[j].pc \in DOMAIN NextStep /\ pipe'[j] # pipe[j]) =>
                \/ /\ pipe'[j].pc = NextStep[pipe[j].pc]
                   /\ JobStatusOf(j)' = JobStatusProcessing
                \/ /\ JobStatusOf(j)' = JobStatusFailed
                   /\ pipe'[j].pc = "done"
                   /\ pipe'[j].rs = NewResolve(pipe[j].userID, pipe[j].sessionID)
                   /\ pipe'[j].updated = "" /\ pipe'[j].seeded = ""
                   /\ storeVars' = storeVars]_vars
    /\ [][\A j \in DOMAIN pipe :
            JobStatusOf(j) = JobStatusFailed =>
                /\ pipe'[j] = pipe[j]
                /\ pipe[j].pc = "done"
                /\ jobStore'.heap[jobStore.jobs[j]] = jobStore.heap[jobStore.jobs[j]]]_vars
    /\ [][\A j \in DOMAIN pipe :
            (JobStatusOf(j) # JobStatusFailed /\ JobStatusOf(j)' = JobStatusFailed) =>
                pipe[j].pc \in DOMAIN NextStep]_vars

\* a job failed by the upload or the generation step, nothing stored
C18_Witness ==
    \E j \in DOMAIN pipe :
        /\ JobStatusOf(j) = JobStatusFailed
        /\ pipe[j].pc = "done"
        /\ jobStore.heap[jobStore.jobs[j]].Error \in ErrTexts
        /\ docs = << >>

\* C19: when resolveSessionID has returned an error to the pipeline, the next
\* step of the pipeline leaves the job failed, not completed.
C19_FailedResolutionFailsJob ==
    [][\A j \in DOMAIN pipe :
         (/\ pipe[j].rs.pc = "done"
          /\ pipe[j].rs.err # ""
          /\ pipe'[j] # pipe[j])
            => /\ JobStatusOf(j)' = JobStatusFailed
               /\ JobStatusOf(j)' # JobStatusCompleted]_vars

\* steps 7 and 8 and the final SetCompleted
LateSteps ==
    {"update_get", "update_write", "fallback_get", "seed_get", "seed_user_update",
     "seed_user_add", "seed_model_update", "seed_model_add", "complete"}

\* C20: from the state write on, no step of the pipeline marks the job
\* failed or changes the analysis and the generated-image locator; whatever
\* the state write and the seeding returned, the pipeline goes on to
\* SetCompleted, which stores the generated-image locator, the analysis and
\* its summary as initialAdvice; and the job does reach completed.
C20_LateFailuresDoNotFailJob ==
    /\ [][\A j \in DOMAIN pipe :
            (pipe[j].pc \in LateSteps /\ pipe'[j] # pipe[j]) =>
                /\ JobStatusOf(j)' # JobStatusFailed
                /\ IF pipe[j].pc = "complete"
                   THEN /\ pipe'[j].pc = "done"
                        /\ JobStatusOf(j)' = JobStatusCompleted
                        /\ jobStore'.heap[jobStore.jobs[j]].Result =
                              [EnhancedImageURL |-> pipe[j].enhancedURL,
                               Analysis |-> pipe[j].analysis,
                               InitialAdvice |-> pipe[j].analysis.Summary]
                   ELSE /\ pipe'[j].pc \in LateSteps
                        /\ JobStatusOf(j)' = JobStatusProcessing
                        /\ pipe'[j].analysis = pipe[j].analysis
                        /\ pipe'[j].enhancedURL = pipe[j].enhancedURL]_vars
    /\ \A j \in JobIds :
         (j \in DOMAIN pipe /\ pipe[j].pc \in LateSteps)
            ~> (JobStatusOf(j) = JobStatusCompleted)

\* the pipeline about to complete a job whose state write and seeding failed
C20_Witness ==
    \E j \in DOMAIN pipe :
        /\ pipe[j].pc = "complete"
        /\ pipe[j].updated \in {"memory", "error"}
        /\ pipe[j].seeded = "error"

\* C21: the error stored on a job when a step fails is the one that step
\* stores for every other underlying error text, and it is what a status
\* response reports for the failed job.
C21_ErrorDependsOnStepOnly ==
    /\ [][\A j \in DOMAIN pipe :
            (JobStatusOf(j) # JobStatusFailed /\ JobStatusOf(j)' = JobStatusFailed) =>
                \A e \in ErrTexts :
                    jobStore'.heap[jobStore.jobs[j]].Error = FailureMessage(pipe[j].pc, e)]_vars
    /\ [](poll.resp.hasError =>
              \A e \in ErrTexts : poll.resp.error # e
                                  /\ poll.resp.error # FailureMessage("analyze", e))

----------------------------------------------------------------------------
(* Repeated visits *)

\* C22: with the calls of resolveSessionID made one after the other, listings
\* that fail included, at most one conversation of a user carries a token
\* other than "default".
C22_SequentialVisitsMakeNoDuplicate ==
    \A u \in UserIDs : \A t \in ChatTokens \ {""} :
        \A n1 \in Carriers(docs, u, t) : \A n2 \in Carriers(docs, u, t) : n1 = n2

\* C34: the token a conversation was created for stays in its state: the
\* state write of an upload's pipeline, made to the conversation the upload
\* resolved to, leaves the frontend_session_id of a conversation that carries
\* a token other than "default" as it was, so that the next resolution of
\* that token finds the conversation again.
C34_UploadKeepsTokenOfConversation ==
    [][\A j \in DOMAIN pipe :
          (/\ pipe[j].pc = "update_write"
           /\ pipe'[j].updated = "persisted"
           /\ PipeDoc(j) \in DOMAIN docs
           /\ StateHas(docs[PipeDoc(j)].State, FrontendKey)
           /\ docs[PipeDoc(j)].State[FrontendKey] # "default")
             => docs'[PipeDoc(j)].State[FrontendKey] = docs[PipeDoc(j)].State[FrontendKey]]_vars

----------------------------------------------------------------------------
(* AppendEvent *)

\* C23: a call of AppendEvent that returns nil has added the event to the
\* stored log and set the conversation's update time to the clock; a call
\* that returns an error has left the stored conversations and their event
\* logs exactly as they were.
C23_AppendEventIsAtomic ==
    [][client'.last.op = "AppendEvent" =>
          IF client'.last.ok
          THEN (client' # client) =>
                 /\ docs'[ClientDoc'].UpdatedAt = now
                 /\ Len(events'[ClientDoc']) = Len(EventDocsOf(events, ClientDoc')) + 1
          ELSE /\ docs' = docs
               /\ events' = events]_vars

\* C24: a call of AppendEvent that returns nil leaves the session object it
\* was given with one event more, the appended one last and the earlier ones
\* in place; a call that returns an error leaves the object's events as
\* they were.
C24_AppendedEventIsVisibleInProcess ==
    [][client'.last.op = "AppendEvent" =>
          IF client'.last.ok /\ client' # client
          THEN LET before == client.got.events
                   after == client'.got.events
               IN  /\ Len(after) = Len(before) + 1
                   /\ SubSeq(after, 1, Len(before)) = before
                   /\ after[Len(after)].ID =
                         appendLog'[ClientDoc'][Len(appendLog'[ClientDoc'])]
                   /\ after[Len(after)].Content = NewContentFromText("hello", "user")
          ELSE client'.got.events = client.got.events]_vars

\* a second event appended to a session object that already held one
C24_Witness ==
    /\ client.last.op = "AppendEvent"
    /\ client.last.ok
    /\ Len(client.got.events) = 2
    /\ client.got.events[2].ID = "e2"

----------------------------------------------------------------------------
(* Create *)

\* C25: a successful Create without an explicit id returns an id under which
\* no conversation of the user was stored, leaves every stored conversation
\* as it was, and stores the new one with the state of the request.
C25_CreateNeverCollides ==
    [][(client'.last.op = "Create" /\ client'.last.ok /\ client' # client) =>
          /\ ClientDoc' \notin DOMAIN docs
          /\ \A n \in DOMAIN docs : docs'[n] = docs[n]
          /\ docs'[ClientDoc'].State = client'.last.updates]_vars

----------------------------------------------------------------------------
(* One chat turn *)

\* the positions of chatWithAgent outside runner.Run, and inside it
HandlerSteps == {"resolve", "enrich", "image", "reply"}

RunnerAdds == {"run_user_add", "run_model_add"}

\* C26: a step of chatWithAgent outside runner.Run leaves every stored event
\* log as it was, and leaves the stored conversations as they were unless
\* it is the Create of a resolution that found no conversation; inside the
\* run each stored log changes only by one Add of AppendEvent, which adds one
\* event to the log of the resolved conversation.
C26_HandlerAppendsNothing ==
    [][\A i \in DOMAIN chat :
         (i \in DOMAIN chat' /\ chat'[i] # chat[i]) =>
            /\ chat[i].pc \in HandlerSteps =>
                 /\ events' = events
                 /\ appendLog' = appendLog
                 /\ (chat[i].pc # "resolve" \/ chat'[i].rs.creates = chat[i].rs.creates)
                       => docs' = docs
            /\ events' # events =>
                 /\ chat[i].pc \in RunnerAdds
                 /\ \A n \in DOMAIN events : n # ChatDoc(i) => events'[n] = events[n]
                 /\ Len(events'[ChatDoc(i)]) = Len(EventDocsOf(events, ChatDoc(i))) + 1]_vars

\* a chat answered after the run stored the user's and the agent's event
C26_Witness ==
    \E i \in DOMAIN chat :
        /\ chat[i].code = 200
        /\ chat[i].rs.creates = 0
        /\ ChatDoc(i) \in DOMAIN events
        /\ Len(events[ChatDoc(i)]) >= 2

----------------------------------------------------------------------------
(* Conversations created without an id *)

\* the calls of resolveSessionID whose Create returned a conversation and
\* which returned no id: the id of the conversation was empty or blank
BlankCreates ==
    {i \in DOMAIN chat :
        chat[i].rs.pc = "done" /\ chat[i].rs.creates > 0 /\ chat[i].rs.id = ""}

\* C28: resolveSessionID never returns an empty or blank id without an
\* error; when its Create returned a conversation of empty or blank id, on
\* the explicit, the default and the fallback path, it has returned an error
\* and no id, the chat is answered 500, and it has called Create once.
C28_BlankCreatedIdIsAnError ==
    /\ \A i \in DOMAIN chat :
         /\ (chat[i].rs.pc = "done" /\ chat[i].rs.err = "") => ~IsBlank(chat[i].rs.id)
         /\ chat[i].rs.err # "" => chat[i].rs.id = ""
         /\ chat[i].rs.creates <= 1
    /\ \A i \in BlankCreates :
         /\ chat[i].rs.err =
               (IF chat[i].rs.path = "fallback"
                THEN "failed to list sessions for user " \o chat[i].userID
                ELSE "created session has empty ID")
         /\ chat[i].pc = "done"
         /\ chat[i].code = 500
         /\ chat[i].err = chat[i].rs.err

\* two chats, one on the fallback path and one on another path, both ended
\* by a Create that returned a conversation without an id
C28_Witness ==
    \E i \in BlankCreates : \E k \in BlankCreates :
        /\ chat[i].rs.path = "fallback"
        /\ chat[k].rs.path \in {"explicit", "default"}

----------------------------------------------------------------------------
(* Bold spans *)

\* the "**" of a text, and the spans they delimit: the first opens, the
\* second closes, the third opens, ...
BoldMarks(ps) == {k \in 1..Len(ps) : ps[k] = "**"}

BoldSpans(ps) ==
    {s \in BoldMarks(ps) \X BoldMarks(ps) :
        /\ s[1] < s[2]
        /\ Cardinality({m \in BoldMarks(ps) : m < s[1]}) % 2 = 0
        /\ \A m \in BoldMarks(ps) : ~(s[1] < m /\ m < s[2])}

\* "**X**": X not empty, without whitespace at either end, and no single
\* asterisk touching the marks
IsTightSpan(ps, s) ==
    /\ s[2] > s[1] + 1
    /\ ps[s[1] + 1] \notin {" ", "*"}
    /\ ps[s[2] - 1] \notin {" ", "*"}

\* "** X **": whitespace after the opening and before the closing mark,
\* X not empty
IsPaddedSpan(ps, s) ==
    /\ ps[s[1] + 1] = " "
    /\ ps[s[2] - 1] = " "
    /\ \E m \in (s[1] + 1)..(s[2] - 1) : ps[m] # " "

\* the whitespace directly inside the marks of the padded spans
Padding(ps) ==
    {m \in 1..Len(ps) :
        \E s \in BoldSpans(ps) :
            /\ IsPaddedSpan(ps, s)
            /\ s[1] < m /\ m < s[2]
            /\ \/ \A x \in (s[1] + 1)..m : ps[x] = " "
               \/ \A x \in m..(s[2] - 1) : ps[x] = " "}

\* every single asterisk stands apart from the other asterisks
SingleAsterisksApart(ps) ==
    \A k \in 1..(Len(ps) - 1) :
        ~(ps[k] \in {"*", "**"} /\ ps[k + 1] \in {"*", "**"}
          /\ (ps[k] = "*" \/ ps[k + 1] = "*"))

RECURSIVE WithoutPadding(_, _)
WithoutPadding(ps, i) ==
    IF i > Len(ps) THEN << >>
    ELSE (IF i \in Padding(ps) THEN << >> ELSE <<ps[i]>>) \o WithoutPadding(ps, i + 1)

\* C29: for a text whose "**" pair up into spans that are each "**X**" or
\* "** X **", fixMarkdownBold returns the text with the whitespace directly
\* inside the marks of every padded span removed and everything else kept:
\* in particular a text all of whose spans are "**X**" is returned unchanged.
C29_FixMarkdownBold ==
    LET ps == markdown.pieces
    IN  (/\ markdown.done
         /\ SingleAsterisksApart(ps)
         /\ Cardinality(BoldMarks(ps)) % 2 = 0
         /\ \A s \in BoldSpans(ps) : IsTightSpan(ps, s) \/ IsPaddedSpan(ps, s))
            => markdown.output = Chars(WithoutPadding(ps, 1), 1)

\* the ids of the events appended to the conversation of job j, in the order
\* of their appending, and those of them that are the seeded events of job j
SeedLog(j) == IF PipeDoc(j) \in DOMAIN appendLog THEN appendLog[PipeDoc(j)] ELSE << >>

SeedIds(j) == {SeedUserEvent(j, 0).ID, SeedModelEvent(j, pipe[j].analysis, 0).ID}

SeedLogOf(j) == SelectSeq(SeedLog(j), LAMBDA id : id \in SeedIds(j))

\* the event documents stored for job j in its conversation
SeedStored(j) ==
    LET s == EventDocsOf(events, PipeDoc(j))
    IN  {s[k] : k \in {i \in 1..Len(s) : s[i].ID \in SeedIds(j)}}

SeedDoc(j, id) == CHOOSE ed \in SeedStored(j) : ed.ID = id

\* C30: a seedAnalysisEvents that succeeds has appended exactly two events to
\* the resolved conversation, the user's first and the assistant's summary of
\* the analysis second, both with the same invocation id; one that fails at
\* the reading of the session or at the appending of the user event has
\* appended nothing, one that fails at the appending of the assistant event
\* has left the user event alone in the log; no other step of the job appends.
C30_SeedAppendsUserThenSummary ==
    [][\A j \in DOMAIN pipe :
         LET u == SeedUserEvent(j, 0).ID
             m == SeedModelEvent(j, pipe[j].analysis, 0).ID
         IN  pipe'[j] # pipe[j] =>
             /\ pipe[j].pc \notin {"seed_user_add", "seed_model_add"}
                   => UNCHANGED <<events, appendLog>>
             /\ (pipe[j].seeded = "" /\ pipe'[j].seeded = "ok") =>
                   /\ pipe[j].pc = "seed_model_add"
                   /\ SeedLog(j)' = Append(SeedLog(j), m)
                   /\ SeedLogOf(j)' = <<u, m>>
                   /\ Cardinality(SeedStored(j)') = 2
                   /\ SeedDoc(j, u)'.Author = "user"
                   /\ SeedDoc(j, m)'.Author = "photo_coach"
                   /\ SeedDoc(j, m)'.Content =
                         MarshalContent(SeedModelEvent(j, pipe[j].analysis, 0).Content)
                   /\ SeedDoc(j, u)'.InvocationID = SeedDoc(j, m)'.InvocationID
             /\ (pipe[j].seeded = "" /\ pipe'[j].seeded = "error") =>
                   /\ UNCHANGED <<events, appendLog>>
                   /\ pipe'[j].pc = "complete"
                   /\ IF pipe[j].pc \in {"seed_model_update", "seed_model_add"}
                      THEN /\ SeedLogOf(j)' = <<u>>
                           /\ Cardinality(SeedStored(j)') = 1
                           /\ SeedDoc(j, u)'.Author = "user"
                      ELSE /\ SeedLogOf(j)' = << >>
                           /\ SeedStored(j)' = {}]_vars

\* a job whose seeding failed at the assistant event, the user event alone in
\* the log of its conversation
C30_Witness ==
    \E j \in DOMAIN pipe :
        /\ pipe[j].pc = "complete"
        /\ pipe[j].seeded = "error"
        /\ Len(SeedLogOf(j)) = 1

\* C31: a server that NewServer returned holds exactly one session service,
\* never nil: the Vertex AI one if and only if project, location and engine
\* id are all set and its constructor succeeded; otherwise the Firestore one
\* if and only if the project is set and its constructor succeeded; otherwise
\* the in-memory one. Every request is served with that one service, which
\* no later step replaces.
C31_OneBackendChosenAtStartup ==
    /\ [](server.pc = "up" =>
            LET e == server.env
                durable == e.project # "" /\ e.location # "" /\ e.engine # ""
                             /\ server.can.vertexai
                document == ~durable /\ e.project # "" /\ server.can.firestore
            IN  /\ server.sessionService \in {"vertexai", "firestore", "memory"}
                /\ server.sessionService = "vertexai" <=> durable
                /\ server.sessionService = "firestore" <=> document
                /\ server.sessionService = "memory" <=> (~durable /\ ~document)
                /\ server.deps = server.sessionService
                /\ \A k \in 1..Len(server.served) :
                      server.served[k].sessionService = server.sessionService)
    /\ [][server.pc = "up" =>
            /\ server'.pc = "up"
            /\ server'.sessionService = server.sessionService
            /\ server'.deps = server.deps]_vars

\* a server started with all three variables set where neither the Vertex AI
\* nor the Firestore constructor succeeds, serving from the in-memory store
C31_Witness ==
    /\ server.pc = "up"
    /\ server.env.engine # "" /\ server.env.location # "" /\ server.env.project # ""
    /\ ~server.can.vertexai /\ ~server.can.firestore
    /\ server.sessionService = "memory"
    /\ Len(server.served) = MaxRequests

\* the events of a session that getSessionDetail reports: those with content,
\* a role of user or model, and some text
Reported(evs) ==
    SelectSeq(evs, LAMBDA e : /\ e.Content # NilContent
                              /\ e.Content.Role \in {"user", "model"}
                              /\ \E k \in 1..Len(e.Content.Parts) :
                                    /\ "Text" \in DOMAIN e.Content.Parts[k]
                                    /\ e.Content.Parts[k].Text # "")

\* C32: the messages of a session detail are, in the order of the event log,
\* exactly the events that have content, a content role of user or model
\* (reported as user and agent) and a non-empty concatenation of their part
\* texts, each with that concatenation and the event's timestamp;
\* messageCount is the number of messages.
C32_DetailMessagesAreTheTextEvents ==
    (detail.done /\ detail.ok) =>
        LET shown == Reported(detail.got.events)
        IN  /\ Len(detail.messages) = Len(shown)
            /\ \A k \in 1..Len(shown) :
                  /\ detail.messages[k].Timestamp = shown[k].Timestamp
                  /\ detail.messages[k].Role =
                        (IF shown[k].Content.Role = "user" THEN "user" ELSE "agent")
                  /\ detail.messages[k].Content = extractText(shown[k].Content)
            /\ detail.messageCount = Len(detail.messages)

\* a detail of two events, one without content and one by the model in three
\* parts, reported as the one message "ab"
C32_Witness ==
    /\ detail.done /\ detail.ok
    /\ Len(detail.got.events) = 2
    /\ detail.got.events[1].Content = NilContent
    /\ detail.messageCount = 1
    /\ detail.messages[1].Role = "agent"
    /\ detail.messages[1].Content = "ab"

----------------------------------------------------------------------------
(* State written by UpdateState *)

\* C33: a key stored in the state of a conversation keeps its value through
\* every call of AppendEvent and of UpdateState on that conversation, except
\* for the keys a successful UpdateState writes itself: an AppendEvent made
\* with a session object fetched before an UpdateState erases none of the
\* keys that UpdateState wrote.
C33_UpdatedKeysSurviveAppends ==
    [][client'.last.op \in {"AppendEvent", "UpdateState"} =>
          LET name == ClientDoc'
              old == docs[name].State
              new == docs'[name].State
          IN  name \in DOMAIN docs =>
                \A k \in DOMAIN old :
                   /\ k \in DOMAIN new
                   /\ \/ new[k] = old[k]
                      \/ /\ client'.last.op = "UpdateState" /\ client'.last.ok
                         /\ k \in DOMAIN client'.last.updates
                         /\ new[k] = client'.last.updates[k]]_vars

----------------------------------------------------------------------------
(* Events without content *)

\* C36: no call of AppendEvent panics: given an event whose Content is nil it
\* returns normally, the event stored with an empty content.
C36_NilContentIsStoredEmpty ==
    client.last.op # "AppendEvent panic"

----------------------------------------------------------------------------
(* Ownership of conversations *)

\* C37: a Get addressed to (app, userId, id) returns the conversation created
\* with that userId and that id, and no other: a caller naming one userId
\* never receives a conversation of another userId.
C37_GetReturnsOwnConversation ==
    client.last.op = "Get" =>
        /\ client.got.userID = client.last.userID
        /\ client.got.id = client.last.id

----------------------------------------------------------------------------
(* A chat turn during an analysis *)

\* C38: when a chat turn without a new image, both of its reads of the
\* conversation having succeeded, attaches the original image of the
\* conversation, its preamble is the one of the state that holds that image:
\* title, score and analysis_result of the same analysis, also when the job
\* of the analysis writes the state of the conversation while the chat is
\* served.
C38_PreambleAndImageFromOneAnalysis ==
    [][\A i \in DOMAIN chat :
          (/\ chat[i].pc = "image"
           /\ chat[i].firstGet = "ok"
           /\ chat'[i].pc = "run_get"
           /\ Len(chat'[i].content.Parts) = 2)
             => chat[i].enriched = Enrich(docs[ChatDoc(i)].State, chat[i].message)]_vars

----------------------------------------------------------------------------
(* The state write of the pipeline *)

\* C39: updateSessionState returns nil only when the conversation stored
\* under the resolved id holds every key of the updates with its value: a
\* change made only to the session object that Get returned is not reported
\* as a success.
C39_SuccessMeansPersisted ==
    [][\A j \in DOMAIN pipe :
          (/\ pipe[j].updated = ""
           /\ pipe'[j].updated \in {"persisted", "memory"})
             => LET updates == StateUpdates(pipe[j].enhancedURL, pipe[j].imageURL,
                                            pipe[j].sessionID, pipe[j].analysis)
                IN  /\ PipeDoc(j) \in DOMAIN docs'
                    /\ \A k \in DOMAIN updates :
                          /\ StateHas(docs'[PipeDoc(j)].State, k)
                          /\ docs'[PipeDoc(j)].State[k] = updates[k]]_vars

====
